---- MODULE Spec2Model ----
(***************************************************************************)
(* State-machine model of the static-analysis core of CodeMXJ:             *)
(*   analyzers/call_graph.py        CallGraphAnalyzer                      *)
(*   analyzers/sequence_diagram.py  SequenceDiagramGenerator               *)
(*   analyzers/code_parser.py       JavaCodeParser                         *)
(*                                                                         *)
(* Source text is modelled by what the analyzers read of it: whether it is *)
(* the empty string, whether the declaration regex of the preprocessor     *)
(* matches, whether javalang parses it, and the ClassDeclaration nodes of  *)
(* the parse tree in the order tree.filter(ClassDeclaration) yields them   *)
(* (pre-order, so an enclosing class precedes the classes nested in it).   *)
(* Identifiers and diagram lines are strings, built with \o exactly where  *)
(* the code builds them with f-strings.                                    *)
(***************************************************************************)
EXTENDS Integers, Sequences, FiniteSets, TLC

VARIABLES
    graph,          \* CallGraphAnalyzer.graph  (nx.DiGraph)
    methods,        \* CallGraphAnalyzer.methods (set of str)
    current_class,  \* CallGraphAnalyzer.current_class
    interactions,   \* SequenceDiagramGenerator.interactions (list of dict)
    sd_class,       \* SequenceDiagramGenerator.current_class
    classes,        \* JavaCodeParser.classes (list of JavaClass)
    tree,           \* JavaCodeParser.tree
    matches,        \* DemographicPatternAnalyzer.matches / IntegrationPatternAnalyzer.matches
    table_usages,   \* LegacyTableAnalyzer.table_usages (list of LegacyTableUsage)
    api_endpoints,  \* MicroserviceAnalyzer.api_endpoints (list of APIEndpoint)
    soap_operations,        \* MicroserviceAnalyzer.soap_operations
    service_dependencies,   \* MicroserviceAnalyzer.service_dependencies
    service_names,          \* MicroserviceAnalyzer.service_names (set of str)
    analyzer,       \* the class of the analyzer instance that was constructed
    source,         \* the source text under analysis
    last            \* the last entry-point call: its arguments and its outcome

vars == <<graph, methods, current_class, interactions, sd_class, classes, tree,
          matches, table_usages, api_endpoints, soap_operations,
          service_dependencies, service_names, analyzer, source, last>>

\* the fields of each class
callGraphVars == <<graph, methods, current_class>>
sequenceVars == <<interactions, sd_class>>
parserVars == <<classes, tree>>
scannerVars == <<matches>>
legacyVars == <<table_usages>>
microserviceVars == <<api_endpoints, soap_operations, service_dependencies, service_names>>

----------------------------------------------------------------------------
(* Python values *)

\* Python's None.  Names of the analysed text never contain '<'.
None == "<None>"

\* str(x) and the {x} of an f-string
Str(x) == IF x = None THEN "None" ELSE x

\* truth value of an optional string: None and "" are falsy
Truthy(x) == x # None /\ x # ""

RECURSIVE FoldSeq(_, _, _)
\* for x in s: acc = f(acc, x)
FoldSeq(f(_, _), acc, s) ==
    IF s = <<>> THEN acc ELSE FoldSeq(f, f(acc, Head(s)), Tail(s))

RECURSIVE Concat(_)
\* the lists of a list, one after the other
Concat(ss) == IF ss = <<>> THEN <<>> ELSE Head(ss) \o Concat(Tail(ss))

SeqsUpTo(S, n) == UNION {[1..k -> S] : k \in 0..n}

Range(s) == {s[i] : i \in DOMAIN s}

\* s is the beginning of t
IsPrefix(s, t) == Len(s) <= Len(t) /\ SubSeq(t, 1, Len(s)) = s

\* t in line, for texts that are atom sequences: t is a run of consecutive
\* atoms of the line
IsInfix(t, line) ==
    \E k \in 0..(Len(line) - Len(t)) : SubSeq(line, k + 1, k + Len(t)) = t

----------------------------------------------------------------------------
(* Bounds of the analysed texts *)

MaxCalls == 2       \* method invocations in one method body
MaxClasses == 2     \* class declarations in one text
MaxMethods == 2     \* method declarations in one class
MaxFields == 2      \* field declarations in one class
MaxAtoms == 3       \* atoms in one scanned text
MaxFiles == 2       \* files in one directory
MaxRecords == 2     \* records a MicroserviceAnalyzer holds when a text is still given to it
MaxMatches == 3     \* matches a scanner holds when a file is still given to it

----------------------------------------------------------------------------
(* The parse tree, as the analyzers read it (javalang.tree)                *)
(*   MethodInvocation  [qualifier, member, arguments]                      *)
(*       qualifier is "" for an unqualified call f(), the dotted receiver  *)
(*       text for r.f(), and None for a call that is a selector of another *)
(*       primary (this.f(), a.b().f())                                     *)
(*   argument          [kind, value]    value is None unless a Literal     *)
(*   MethodDeclaration [name, parameters, return_type, body]               *)
(*       body = [present, calls]: present is FALSE for a method without a  *)
(*       body (body is None); calls are the MethodInvocation nodes below   *)
(*       the declaration in the order filter() yields them.  A body with   *)
(*       no call is modelled as the empty list of statements.              *)
(*   FieldDeclaration  [type, modifiers, declarators]                      *)
(*   ClassDeclaration  [name, extends, implements, fields, methods]        *)
(*       extends is the super type's name or None; implements is <<>> for  *)
(*       None.                                                             *)
(***************************************************************************)

MethodInvocation(q, m, args) == [qualifier |-> q, member |-> m, arguments |-> args]
Literal(v) == [kind |-> "Literal", value |-> v]
MemberReference == [kind |-> "MemberReference", value |-> None]
NoBody == [present |-> FALSE, calls |-> <<>>]
Body(calls) == [present |-> TRUE, calls |-> calls]
Method(n, ps, rt, b) == [name |-> n, parameters |-> ps, return_type |-> rt, body |-> b]
Field(t, mods, ds) == [type |-> t, modifiers |-> mods, declarators |-> ds]
Class(n, ext, impl, fs, ms) ==
    [name |-> n, extends |-> ext, implements |-> impl, fields |-> fs, methods |-> ms]

(* A source text: text == "" (empty), whether the preprocessor's regex      *)
(* (class|interface|enum)\s+\w+ and the braces match (declares), whether   *)
(* javalang parses it (parses), and its ClassDeclaration nodes.            *)
Text(e, d, p, cs) == [empty |-> e, declares |-> d, parses |-> p, classes |-> cs]
Unit(cs) == Text(FALSE, TRUE, TRUE, cs)

EmptyCode == Text(TRUE, FALSE, TRUE, <<>>)          \* ""
BlankCode == Text(FALSE, FALSE, TRUE, <<>>)         \* "  \n"
GarbageCode == Text(FALSE, FALSE, FALSE, <<>>)      \* "not java"
BrokenClassCode == Text(FALSE, TRUE, FALSE, <<>>)   \* "class Order { void ship( }"
\* "class Probe { void ping() { } }"
ProbeCode == Unit(<<Class("Probe", None, <<>>, <<>>, <<Method("ping", <<>>, None, Body(<<>>))>>)>>)

\* javalang.parse.parse(code): the tree, or a raised JavaSyntaxError / LexerError.
\* The empty text parses, to a compilation unit without types.
Parse(code) == [ok |-> code.parses, tree |-> code.classes]

----------------------------------------------------------------------------
(* networkx.DiGraph: a node set and at most one edge per ordered pair, each  *)
(* edge with an attribute dict.  An attribute that is not set is None.     *)

NoAttr == [type |-> None, details |-> None]
Attr(t, d) == [type |-> t, details |-> d]
DiGraph == [node |-> {}, adj |-> [e \in {} |-> NoAttr]]
Edges(g) == DOMAIN g.adj

\* G.add_node(n)
AddNode(g, n) == [g EXCEPT !.node = @ \cup {n}]

\* the mutation of AddEdge in which an edge that exists keeps its attributes
AddEdgeKeepFirst(g, u, v, attr) ==
    [node |-> g.node \cup {u, v},
     adj |-> [e \in DOMAIN g.adj \cup {<<u, v>>} |->
                IF e \in DOMAIN g.adj THEN g.adj[e] ELSE attr]]

\* G.add_edge(u, v, **attr): adds both nodes; an edge that exists keeps its
\* attribute dict, which the given attributes update
AddEdge(g, u, v, attr) ==
    LET old == IF <<u, v>> \in DOMAIN g.adj THEN g.adj[<<u, v>>] ELSE NoAttr
        new == [type |-> IF attr.type = None THEN old.type ELSE attr.type,
                details |-> IF attr.details = None THEN old.details ELSE attr.details]
    IN  [node |-> g.node \cup {u, v},
         adj |-> [e \in DOMAIN g.adj \cup {<<u, v>>} |->
                    IF e = <<u, v>> THEN new ELSE g.adj[e]]]

----------------------------------------------------------------------------
(* CallGraphAnalyzer.  self == [graph, methods, current_class]             *)

\* hasattr(node, name) for an attribute javalang declares in the node's attrs:
\* Node.__init__ sets every declared attribute, to None when it is not given
HasAttr(node, name) == TRUE

\* MethodDeclaration.body is None or the Python list of statements that the
\* parser's parse_block returns; a list is no tree.Node and has no filter()
BodyHasFilter(body) == FALSE

\* _analyze_method_body, one iteration of the loop (lines 40-50)
CallEdge(self, node, current_method) ==
    IF HasAttr(node, "member")
    THEN LET called_method ==
                 IF HasAttr(node, "qualifier")
                 THEN Str(node.qualifier) \o "." \o node.member
                 ELSE Str(self.current_class) \o "." \o node.member
         IN  [self EXCEPT !.methods = @ \cup {called_method},
                          !.graph = AddEdge(@, current_method, called_method, NoAttr)]
    ELSE self

\* _analyze_method_body(body, current_method): body.filter raises
\* AttributeError on a list, which the except clause of line 51 swallows
AnalyzeMethodBody(self, body, current_method) ==
    IF BodyHasFilter(body)
    THEN FoldSeq(LAMBDA s, node : CallEdge(s, node, current_method), self, body.calls)
    ELSE self

\* _analyze_methods, one iteration of the loop (lines 30-34)
AnalyzeMethod(self, method) ==
    LET current_method == Str(self.current_class) \o "." \o method.name
        s1 == [self EXCEPT !.methods = @ \cup {current_method}]
    IN  IF method.body.present /\ method.body.calls # <<>>
        THEN AnalyzeMethodBody(s1, method.body, current_method)
        ELSE s1

\* _analyze_methods(class_node)
AnalyzeMethods(self, class_node) == FoldSeq(AnalyzeMethod, self, class_node.methods)

\* _analyze_classes(tree)
AnalyzeClasses(self, t) ==
    FoldSeq(LAMBDA s, node : AnalyzeMethods([s EXCEPT !.current_class = node.name], node),
            self, t)

\* the mutation of IsPrimitiveOrCommonType that excludes the primitives only
IsPrimitiveType(type_name) ==
    type_name \in {"int", "long", "float", "double", "boolean", "char", "byte", "short"}

\* _is_primitive_or_common_type(type_name)
IsPrimitiveOrCommonType(type_name) ==
    LET primitive_types == {"int", "long", "float", "double", "boolean", "char", "byte", "short"}
        common_types == {"String", "Integer", "Long", "Float", "Double", "Boolean",
                         "Character", "Byte", "Short"}
    IN  type_name \in primitive_types \/ type_name \in common_types

\* _is_composition_relationship(field)
IsCompositionRelationship(field) == \E modifier \in field.modifiers : modifier = "final"

\* _analyze_field_relationships, one iteration of the loop (lines 98-107)
FieldRelationship(g, field, class_name) ==
    LET field_type == field.type IN
    IF ~IsPrimitiveOrCommonType(field_type)
    THEN LET edge_type == IF IsCompositionRelationship(field)
                          THEN "Composition" ELSE "Association"
             verb == IF IsCompositionRelationship(field)
                     THEN "composition" ELSE "association"
         IN  AddEdge(AddNode(g, field_type), class_name, field_type,
                     Attr(edge_type, class_name \o " " \o verb \o " with " \o field_type))
    ELSE g

\* _analyze_field_relationships(class_node, class_name)
AnalyzeFieldRelationships(g, class_node, class_name) ==
    FoldSeq(LAMBDA h, field : FieldRelationship(h, field, class_name), g, class_node.fields)

\* _analyze_method_relationships, the parameter and return type of one method
UsesType(g, class_name, type_name, verb) ==
    IF ~IsPrimitiveOrCommonType(type_name)
    THEN AddEdge(AddNode(g, type_name), class_name, type_name,
                 Attr("Association", class_name \o " " \o verb \o " " \o type_name))
    ELSE g

\* _analyze_method_relationships, one iteration of the loop (lines 112-127)
MethodRelationship(g, method, class_name) ==
    LET g1 == FoldSeq(LAMBDA h, param_type : UsesType(h, class_name, param_type, "uses"),
                      g, method.parameters)
    IN  IF method.return_type # None
        THEN UsesType(g1, class_name, method.return_type, "returns")
        ELSE g1

\* _analyze_method_relationships(class_node, class_name)
AnalyzeMethodRelationships(g, class_node, class_name) ==
    FoldSeq(LAMBDA h, method : MethodRelationship(h, method, class_name), g, class_node.methods)

\* _analyze_class_relationships, one iteration of the loop (lines 67-92)
ClassRelationships(g, node) ==
    LET class_name == node.name
        g1 == IF class_name \notin g.node THEN AddNode(g, class_name) ELSE g
        g2 == IF node.extends # None
              THEN AddEdge(AddNode(g1, node.extends), class_name, node.extends,
                           Attr("Inheritance", class_name \o " extends " \o node.extends))
              ELSE g1
        g3 == FoldSeq(LAMBDA h, interface_name :
                          AddEdge(AddNode(h, interface_name), class_name, interface_name,
                                  Attr("Implementation",
                                       class_name \o " implements " \o interface_name)),
                      g2, node.implements)
        g4 == AnalyzeFieldRelationships(g3, node, class_name)
    IN  AnalyzeMethodRelationships(g4, node, class_name)

\* _analyze_class_relationships(tree)
AnalyzeClassRelationships(g, t) == FoldSeq(ClassRelationships, g, t)

RECURSIVE SimplePathsFrom(_, _, _)
\* nx.all_simple_paths(graph, node, target): the paths that extend `path` to
\* the target without visiting a node twice
SimplePathsFrom(g, path, target) ==
    LET u == path[Len(path)] IN
    IF u = target THEN {path}
    ELSE UNION {SimplePathsFrom(g, Append(path, v), target) :
                   v \in {w \in g.node : <<u, w>> \in Edges(g) /\ w \notin Range(path)}}

\* lines 155-158: all() over the edges of the path stops at the first edge
\* that is not of type Inheritance; an edge without a type raises KeyError
InheritancePath(g, path) ==
    LET steps == 1..(Len(path) - 1)
        kind(i) == g.adj[<<path[i], path[i + 1]>>].type
        others == {i \in steps : kind(i) # "Inheritance"}
        first == CHOOSE i \in others : \A k \in others : i <= k
    IN  IF others = {} THEN "Inheritance"
        ELSE IF kind(first) = None THEN "KeyError"
        ELSE "other"

\* get_dependency_statistics(graph): [exc, total_classes, total_dependencies,
\* avg_dependencies, max_inheritance_depth]; avg_dependencies is the quotient
\* of the pair given, 0 when there is no node
GetDependencyStatistics(g) ==
    LET total_classes == Cardinality(g.node)
        total_dependencies == Cardinality(Edges(g))
        paths == UNION {SimplePathsFrom(g, <<pair[1]>>, pair[2]) :
                           pair \in {q \in g.node \X g.node : q[1] # q[2]}}
        lengths == {Len(path) - 1 :
                       path \in {q \in paths : InheritancePath(g, q) = "Inheritance"}}
    IN  [exc |-> IF \E path \in paths : InheritancePath(g, path) = "KeyError"
                 THEN "KeyError" ELSE None,
         total_classes |-> total_classes,
         total_dependencies |-> total_dependencies,
         avg_dependencies |-> IF total_classes > 0
                              THEN <<total_dependencies, total_classes>> ELSE <<0, 1>>,
         max_inheritance_depth |->
             IF lengths = {} THEN 0 ELSE CHOOSE n \in lengths : \A k \in lengths : k <= n]

\* get_method_list(): the elements of sorted(list(self.methods))
GetMethodList(self) == self.methods

----------------------------------------------------------------------------
(* SequenceDiagramGenerator.  self == [interactions, current_class]        *)

\* Python orders str by code point: upper case before lower case.  The names
\* that can become participants, in that order.
Alphabet == <<"Audit", "Order", "Probe", "Svc", "audit", "billing">>

\* the mutation of Sorted that orders the names without regard to case
SortedIgnoringCase(S) ==
    SelectSeq(<<"Audit", "audit", "billing", "Order", "Probe", "Svc">>, LAMBDA x : x \in S)

\* sorted(participants)
Sorted(S) == SelectSeq(Alphabet, LAMBDA x : x \in S)

\* _extract_arguments(method_node): a Literal has a value attribute; for any
\* other node str(arg) is the node's class name (Node.__repr__)
ExtractArguments(method_node) ==
    [i \in DOMAIN method_node.arguments |->
        LET arg == method_node.arguments[i]
        IN  IF arg.value # None THEN Str(arg.value) ELSE arg.kind]

\* the loop body with the record put in front of the list
InteractionPrepended(self, node) ==
    LET target_class == IF Truthy(node.qualifier) THEN Str(node.qualifier)
                        ELSE self.current_class
    IN  [self EXCEPT !.interactions =
             <<[from |-> self.current_class, to |-> target_class,
                message |-> node.member, arguments |-> ExtractArguments(node)]>> \o @]

\* _analyze_method_body, one iteration of the loop (lines 158-172)
Interaction(self, node) ==
    LET target_class == IF HasAttr(node, "qualifier") /\ Truthy(node.qualifier)
                        THEN Str(node.qualifier) ELSE self.current_class
    IN  IF HasAttr(node, "member")
        THEN [self EXCEPT !.interactions =
                 Append(@, [from |-> self.current_class, to |-> target_class,
                            message |-> node.member,
                            arguments |-> ExtractArguments(node)])]
        ELSE self

\* _analyze_method_body(method_node): filter() is called on the declaration node
SdAnalyzeMethodBody(self, method_node) ==
    IF ~method_node.body.present
    THEN self
    ELSE FoldSeq(Interaction, self, method_node.body.calls)

\* ', '.join(arguments)
RECURSIVE JoinComma(_)
JoinComma(args) ==
    IF args = <<>> THEN ""
    ELSE IF Len(args) = 1 THEN args[1]
    ELSE args[1] \o ", " \o JoinComma(Tail(args))

\* the skinparam preamble of the diagram (lines 182-194)
DiagramHeader ==
    << "@startuml",
       "skinparam sequenceMessageAlign center",
       "skinparam responseMessageBelowArrow true",
       "skinparam maxMessageSize 100",
       "skinparam sequence {",
       "    ArrowColor DeepSkyBlue",
       "    LifeLineBorderColor blue",
       "    ParticipantBorderColor DarkBlue",
       "    ParticipantBackgroundColor LightBlue",
       "    ParticipantFontStyle bold",
       "}" >>

ParticipantLine(p) == "participant \"" \o p \o "\" as " \o p

ArrowLine(interaction) ==
    LET args_str == IF interaction.arguments # <<>>
                    THEN "(" \o JoinComma(interaction.arguments) \o ")" ELSE ""
        message == interaction.message \o args_str
    IN  interaction.from \o " -> " \o interaction.to \o ": " \o message

NoteLine(c) == "note over " \o c \o ": No method calls found"

\* the participants without the current class of line 197
ParticipantsOfInteractions(self) ==
    {self.interactions[i].from : i \in DOMAIN self.interactions}
        \cup {self.interactions[i].to : i \in DOMAIN self.interactions}

\* the participants set of _generate_sequence_diagram (lines 197-200)
Participants(self) ==
    {self.current_class}
        \cup {self.interactions[i].from : i \in DOMAIN self.interactions}
        \cup {self.interactions[i].to : i \in DOMAIN self.interactions}

\* _generate_sequence_diagram(): the lines that "\n".join() joins
GenerateSequenceDiagram(self) ==
    LET ps == Sorted(Participants(self))
    IN  DiagramHeader
          \o [i \in DOMAIN ps |-> ParticipantLine(ps[i])]
          \o [i \in DOMAIN self.interactions |-> ArrowLine(self.interactions[i])]
          \o (IF self.interactions = <<>> THEN <<NoteLine(self.current_class)>> ELSE <<>>)
          \o <<"@enduml">>

\* the methods of the text in the order the two loops of lines 109-121 visit
\* them: <<class index, method index>> of the first one named method_name
RECURSIVE FirstMatchFrom(_, _, _, _)
FirstMatchFrom(t, method_name, i, j) ==
    IF i > Len(t) THEN <<0, 0>>
    ELSE IF j > Len(t[i].methods) THEN FirstMatchFrom(t, method_name, i + 1, 1)
    ELSE IF t[i].methods[j].name = method_name THEN <<i, j>>
    ELSE FirstMatchFrom(t, method_name, i, j + 1)

\* the search without the break of lines 120-121: every class that declares
\* the name has its first method of that name traced
FindAndAnalyzeNoBreak(self, t, method_name) ==
    LET fresh == [self EXCEPT !.interactions = <<>>, !.current_class = None]
        Trace(s, cl) ==
            LET at == FirstMatchFrom(<<cl>>, method_name, 1, 1)
            IN  IF at = <<0, 0>> THEN s
                ELSE SdAnalyzeMethodBody([s EXCEPT !.current_class = cl.name],
                                         cl.methods[at[2]])
    IN  [method_found |-> FirstMatchFrom(t, method_name, 1, 1) # <<0, 0>>,
         self |-> FoldSeq(Trace, fresh, t)]

\* the search without the reset of line 104
FindAndAnalyzeNoReset(self, t, method_name) ==
    LET at == FirstMatchFrom(t, method_name, 1, 1)
    IN  IF at = <<0, 0>>
        THEN [method_found |-> FALSE, self |-> self]
        ELSE [method_found |-> TRUE,
              self |-> SdAnalyzeMethodBody([self EXCEPT !.current_class = t[at[1]].name],
                                           t[at[1]].methods[at[2]])]

\* lines 104-121: reset, then the search with its two breaks
FindAndAnalyze(self, t, method_name) ==
    LET at == FirstMatchFrom(t, method_name, 1, 1)
        fresh == [self EXCEPT !.interactions = <<>>, !.current_class = None]
    IN  IF at = <<0, 0>>
        THEN [method_found |-> FALSE, self |-> fresh]
        ELSE [method_found |-> TRUE,
              self |-> SdAnalyzeMethodBody([fresh EXCEPT !.current_class = t[at[1]].name],
                                           t[at[1]].methods[at[2]])]

----------------------------------------------------------------------------
(* JavaCodeParser *)

\* the mutation of JavaClass that records every variable of a field declaration
JavaClassAllDeclarators(node) ==
    [name |-> node.name,
     methods |-> [i \in DOMAIN node.methods |-> node.methods[i].name],
     fields |-> Concat([i \in DOMAIN node.fields |-> node.fields[i].declarators]),
     extends |-> node.extends,
     implements |-> node.implements]

\* the JavaClass built from one ClassDeclaration (lines 34-45)
JavaClass(node) ==
    [name |-> node.name,
     methods |-> [i \in DOMAIN node.methods |-> node.methods[i].name],
     fields |-> [i \in DOMAIN node.fields |-> node.fields[i].declarators[1]],
     extends |-> node.extends,
     implements |-> node.implements]

\* the loop of parse_code (lines 33-46)
ParseClasses(t) == [i \in DOMAIN t |-> JavaClass(t[i])]

\* get_class_relationships(): the dict, as a function of the class names; a
\* name that occurs twice keeps the list of its last class
GetClassRelationships(self) ==
    LET related(java_class) ==
            (IF java_class.extends # None THEN <<java_class.extends>> ELSE <<>>)
                \o java_class.implements
        last_of(n) == CHOOSE i \in DOMAIN self.classes :
                          /\ self.classes[i].name = n
                          /\ \A k \in DOMAIN self.classes : self.classes[k].name = n => k <= i
    IN  [n \in {self.classes[i].name : i \in DOMAIN self.classes} |->
            related(self.classes[last_of(n)])]

----------------------------------------------------------------------------
(* The lexical scanners: DemographicPatternAnalyzer and                    *)
(* IntegrationPatternAnalyzer.                                             *)
(*                                                                         *)
(* A text is a sequence of atoms: the separators " " and "\n" and runs of  *)
(* word characters.  Adjacent word atoms form one word ("topic","city" is  *)
(* the text topiccity).  A regular expression is modelled by what          *)
(* re.finditer(pattern, line, re.IGNORECASE) yields on such a line: the    *)
(* non-overlapping matches from left to right, each the text of the line   *)
(* that it covers, in the case the line has it.                            *)

Atoms == {" ", "\n", "Email", "city", "topic", "GET", "api"}

\* str.lower() on the atoms
Lower(a) ==
    CASE a = "Email" -> "email" [] a = "GET" -> "get" [] a = "Test" -> "test"
      [] a = "Order" -> "order" [] a = "Svc" -> "svc" [] OTHER -> a

\* str.lower() on a text
LowerText(text) == [i \in DOMAIN text |-> Lower(text[i])]

\* content.split('\n')
RECURSIVE Split(_)
Split(s) ==
    IF \A i \in DOMAIN s : s[i] # "\n"
    THEN <<s>>
    ELSE LET k == CHOOSE i \in DOMAIN s :
                      s[i] = "\n" /\ \A j \in 1..(i - 1) : s[j] # "\n"
         IN  <<SubSeq(s, 1, k - 1)>> \o Split(SubSeq(s, k + 1, Len(s)))

\* \w at position i of the line; off the line there is no character
WordAt(line, i) == i \in DOMAIN line /\ line[i] \notin {" ", "\n"}

\* \b between the atoms i-1 and i
Boundary(line, i) == WordAt(line, i - 1) # WordAt(line, i)

(* A pattern is an alternation of literals, each with or without \b on its *)
(* sides, optionally followed by .* and a second alternation:              *)
(*   \b(a|b)\b           Words({a, b})                                     *)
(*   a|b                 Parts({a, b})                                     *)
(*   \b(a|b)\b.*\b(c)\b  Span({a, b}, TRUE, {c}, TRUE)                     *)
(* The literals are written in lower case, as re.IGNORECASE compares them. *)
Alt(ws, l, r) == [words |-> ws, left |-> l, right |-> r]
Words(ws) == [first |-> Alt(ws, TRUE, TRUE), span |-> FALSE, last |-> Alt({}, FALSE, FALSE)]
Parts(ws) == [first |-> Alt(ws, FALSE, FALSE), span |-> FALSE, last |-> Alt({}, FALSE, FALSE)]
Span(ws, r, vs, l) ==
    [first |-> Alt(ws, TRUE, r), span |-> TRUE, last |-> Alt(vs, l, TRUE)]

\* the alternation matches the atom at position i
Hit(line, i, alt) ==
    /\ Lower(line[i]) \in alt.words
    /\ alt.left => Boundary(line, i)
    /\ alt.right => Boundary(line, i + 1)

\* re.finditer(pattern, line, re.IGNORECASE): the <<start, end>> of each match.
\* A span starts at the leftmost first literal that a last literal follows
\* and, .* being greedy, ends at the rightmost last literal of the line, so
\* nothing is left to match after it.
Finditer(pattern, line) ==
    IF ~pattern.span
    THEN LET at == SelectSeq([i \in DOMAIN line |-> i],
                             LAMBDA i : Hit(line, i, pattern.first))
         IN  [k \in DOMAIN at |-> <<at[k], at[k]>>]
    ELSE LET ends(i) == {j \in DOMAIN line : j > i /\ Hit(line, j, pattern.last)}
             starts == {i \in DOMAIN line : Hit(line, i, pattern.first) /\ ends(i) # {}}
         IN  IF starts = {} THEN <<>>
             ELSE LET i == CHOOSE x \in starts : \A y \in starts : x <= y
                      j == CHOOSE x \in ends(i) : \A y \in ends(i) : y <= x
                  IN  <<<<i, j>>>>

\* match.group()
Group(line, m) == SubSeq(line, m[1], m[2])

\* DemographicPatternAnalyzer.demographic_patterns, in the order of the dict
DemographicPatterns ==
    <<[category |-> "id", pattern |-> Words({"customerid", "cm_15"})],
      [category |-> "name",
       pattern |-> Words({"first_name", "last_name", "full_name", "name", "amount"})],
      [category |-> "address",
       pattern |-> Words({"address", "street", "city", "state", "zip", "postal_code"})],
      [category |-> "contact", pattern |-> Words({"phone", "email", "contact"})],
      [category |-> "identity",
       pattern |-> Words({"ssn", "social_security", "tax_id", "passport"})],
      [category |-> "demographics",
       pattern |-> Words({"age", "gender", "dob", "date_of_birth", "nationality",
                          "ethnicity"})]>>

DemographicMatch(category, field_name, file_path, line_number, matched_text) ==
    [category |-> category, field_name |-> field_name, file_path |-> file_path,
     line_number |-> line_number, matched_text |-> matched_text]

\* the matches of one pattern on one line (lines 29-37)
DemographicLineMatches(file_path, line_number, line, entry) ==
    LET found == Finditer(entry.pattern, line) IN
    [k \in DOMAIN found |->
              DemographicMatch(entry.category, Group(line, found[k]), file_path,
                               line_number, Group(line, found[k]))]

\* the mutation of analyze_file that starts each file with an empty list
DemographicAnalyzeFileCleared(self_matches, file_path, content) ==
    LET lines == Split(content) IN
    Concat([n \in DOMAIN lines |->
              Concat([e \in DOMAIN DemographicPatterns |->
                        DemographicLineMatches(file_path, n, lines[n],
                                               DemographicPatterns[e])])])

\* DemographicPatternAnalyzer.analyze_file(file_path, content): the matches are
\* appended line by line and, within a line, pattern by pattern
DemographicAnalyzeFile(self_matches, file_path, content) ==
    LET lines == Split(content) IN
    self_matches \o
        Concat([n \in DOMAIN lines |->
                  Concat([e \in DOMAIN DemographicPatterns |->
                            DemographicLineMatches(file_path, n, lines[n],
                                                   DemographicPatterns[e])])])

\* summary[key].append(match), the key inserted on its first match
SummaryAppend(summary, key, match) ==
    [k \in DOMAIN summary \cup {key} |->
        IF k = key
        THEN (IF k \in DOMAIN summary THEN summary[k] ELSE <<>>) \o <<match>>
        ELSE summary[k]]

\* DemographicPatternAnalyzer.get_pattern_summary()
DemographicGetPatternSummary(self_matches) ==
    LET Add(summary, match) == SummaryAppend(summary, match.category, match)
    IN  FoldSeq(Add, [k \in {} |-> <<>>], self_matches)

\* DemographicPatternAnalyzer.get_statistics()
DemographicGetStatistics(self_matches) ==
    [category \in {DemographicPatterns[i].category : i \in DOMAIN DemographicPatterns} |->
        Len(SelectSeq(self_matches, LAMBDA m : m.category = category))]

\* IntegrationPatternAnalyzer.integration_patterns, in the order of the dicts.
\* Of url_patterns, sql_operations, soap_endpoints and db_connections the
\* literals that need a ':', a '/', a '.' or an inner separator are left
\* out: no atom holds one, so they match nothing in these texts.
IntegrationPatterns ==
    <<[pattern_type |-> "rest_api", pattern_name |-> "http_methods",
       pattern |-> Span({"get", "post", "put", "delete", "patch"}, TRUE,
                        {"api", "endpoint"}, TRUE)],
      [pattern_type |-> "rest_api", pattern_name |-> "url_patterns", pattern |-> Parts({})],
      [pattern_type |-> "rest_api", pattern_name |-> "api_endpoints",
       pattern |-> Parts({"@requestmapping", "@getmapping", "@postmapping", "@putmapping",
                          "@deletemapping"})],
      [pattern_type |-> "soap_services", pattern_name |-> "soap_components",
       pattern |-> Words({"soap", "wsdl", "xml"})],
      [pattern_type |-> "soap_services", pattern_name |-> "wsdl",
       pattern |-> Parts({"wsdl", "getwsdl", "webservice"})],
      [pattern_type |-> "soap_services", pattern_name |-> "soap_operations",
       pattern |-> Parts({"soapmessage", "soapenvelope", "soapbody", "soapheader",
                          "soapclient", "soapbinding"})],
      [pattern_type |-> "soap_services", pattern_name |-> "xml_namespaces",
       pattern |-> Parts({"namespace", "schemalocation"})],
      [pattern_type |-> "soap_services", pattern_name |-> "soap_annotations",
       pattern |-> Parts({"@webservice", "@webmethod", "@soapbinding", "@webresult",
                          "@webparam"})],
      [pattern_type |-> "soap_services", pattern_name |-> "soap_endpoints",
       pattern |-> Parts({"endpointurl", "endpoint_url", "serviceurl", "service_url",
                          "wsdlurl", "wsdl_url"})],
      [pattern_type |-> "database", pattern_name |-> "sql_operations",
       pattern |-> [first |-> Alt({"into"}, FALSE, TRUE), span |-> FALSE,
                    last |-> Alt({}, FALSE, FALSE)]],
      [pattern_type |-> "database", pattern_name |-> "db_connections",
       pattern |-> Parts({"connectionstring", "connection_string", "databaseurl",
                          "database_url"})],
      [pattern_type |-> "messaging", pattern_name |-> "kafka",
       pattern |-> Parts({"kafka", "producer", "consumer", "topic"})],
      [pattern_type |-> "messaging", pattern_name |-> "rabbitmq",
       pattern |-> Parts({"rabbitmq", "amqp"})],
      [pattern_type |-> "messaging", pattern_name |-> "jms",
       pattern |-> Parts({"jms", "queue", "topic"})],
      [pattern_type |-> "file", pattern_name |-> "file_operations",
       pattern |-> Span({"csv", "excel", "xlsx", "json", "properties"}, FALSE,
                        {"read", "write", "load", "save"}, FALSE)]>>

\* the mutation of PatternMatch that records the text in lower case
PatternMatchLowered(pattern_type, pattern_name, file_path, line_number, matched_text) ==
    [pattern_type |-> pattern_type, pattern_name |-> pattern_name, file_path |-> file_path,
     line_number |-> line_number,
     matched_text |-> [i \in DOMAIN matched_text |-> Lower(matched_text[i])]]

PatternMatch(pattern_type, pattern_name, file_path, line_number, matched_text) ==
    [pattern_type |-> pattern_type, pattern_name |-> pattern_name, file_path |-> file_path,
     line_number |-> line_number, matched_text |-> matched_text]

\* the matches of one pattern on one line (lines 49-57)
IntegrationLineMatches(file_path, line_number, line, entry) ==
    LET found == Finditer(entry.pattern, line) IN
    [k \in DOMAIN found |->
              PatternMatch(entry.pattern_type, entry.pattern_name, file_path,
                           line_number, Group(line, found[k]))]

\* IntegrationPatternAnalyzer.analyze_file(file_path, content): the matches are
\* appended line by line and, within a line, pattern by pattern
IntegrationAnalyzeFile(self_matches, file_path, content) ==
    LET lines == Split(content) IN
    self_matches \o
        Concat([n \in DOMAIN lines |->
                  Concat([e \in DOMAIN IntegrationPatterns |->
                            IntegrationLineMatches(file_path, n, lines[n],
                                                   IntegrationPatterns[e])])])

\* the mutation of get_pattern_summary that puts each match first in its list
IntegrationGetPatternSummaryPrepended(self_matches) ==
    LET Add(summary, match) ==
            [k \in DOMAIN summary \cup {match.pattern_type} |->
                IF k = match.pattern_type
                THEN <<match>> \o (IF k \in DOMAIN summary THEN summary[k] ELSE <<>>)
                ELSE summary[k]]
    IN  FoldSeq(Add, [k \in {} |-> <<>>], self_matches)

\* IntegrationPatternAnalyzer.get_pattern_summary()
IntegrationGetPatternSummary(self_matches) ==
    LET Add(summary, match) == SummaryAppend(summary, match.pattern_type, match)
    IN  FoldSeq(Add, [k \in {} |-> <<>>], self_matches)

\* the mutation of get_statistics that takes the keys from the matches
IntegrationGetStatisticsInferred(self_matches) ==
    [pattern_type \in {self_matches[i].pattern_type : i \in DOMAIN self_matches} |->
        Len(SelectSeq(self_matches, LAMBDA m : m.pattern_type = pattern_type))]

\* IntegrationPatternAnalyzer.get_statistics()
IntegrationGetStatistics(self_matches) ==
    [pattern_type \in {IntegrationPatterns[i].pattern_type : i \in DOMAIN IntegrationPatterns} |->
        Len(SelectSeq(self_matches, LAMBDA m : m.pattern_type = pattern_type))]

----------------------------------------------------------------------------
(* Annotated parse trees, as LegacyTableAnalyzer and MicroserviceAnalyzer  *)
(* read them.                                                              *)
(*   Annotation [name, form, key, value]: the element of the annotation is *)
(*       "none"   @Entity                     element is None              *)
(*       "value"  @Table("T")                 element is one Literal       *)
(*       "array"  @Table({"T", "U"})          element is one               *)
(*                                            ElementArrayValue            *)
(*       "pairs"  @Table(name = "T")          element is a list with one   *)
(*                                            ElementValuePair key = value *)
(*       and value is the text of the literal, quotes included, as an atom *)
(*       sequence.                                                         *)
(*   A ClassDeclaration has the field annotations besides those above; a   *)
(*   MethodDeclaration has annotations and strings, the texts of the       *)
(*   string literals below it, quotes included.                            *)

Annotation(n, form, key, value) == [name |-> n, form |-> form, key |-> key, value |-> value]
Marker(n) == Annotation(n, "none", None, <<>>)
Quoted(atoms) == <<"\"">> \o atoms \o <<"\"">>
AnnotatedMethod(n, annotations, ps, rt, b, strings) ==
    [name |-> n, annotations |-> annotations, parameters |-> ps, return_type |-> rt,
     body |-> b, strings |-> strings]
AnnotatedClass(n, annotations, ms) ==
    [name |-> n, annotations |-> annotations, extends |-> None, implements |-> <<>>,
     fields |-> <<>>, methods |-> ms]

(* For MicroserviceAnalyzer a FormalParameter is [type, name, annotations]  *)
(* and a type is [name, arguments, repr]: an argument is the name of the    *)
(* type of a type argument, None for the wildcard ?, and repr is the text   *)
(* str() gives of the node.  The return type of a void method, which is     *)
(* None, is the type with the name None.                                    *)
Parameter(t, n, annotations) == [type |-> t, name |-> n, annotations |-> annotations]
ReferenceType(n, arguments) == [name |-> n, arguments |-> arguments, repr |-> "ReferenceType"]
Void == [name |-> None, arguments |-> <<>>, repr |-> "None"]

\* _has_annotation(annotations, annotation_name)
HasAnnotation(annotations, annotation_name) ==
    \E i \in DOMAIN annotations : annotations[i].name = annotation_name

\* iterating a Node yields (path, node) tuples: a tuple has no attribute name,
\* and the ElementArrayValue in it has no attribute value
NoAttribute == "AttributeError"

----------------------------------------------------------------------------
(* LegacyTableAnalyzer.  Table names and SQL texts are atom sequences.     *)

\* self.legacy_systems, in the order of the dict
LegacySystems ==
    <<[system |-> "CRPS", tables |-> <<"CRPS_CUSTOMER", "CRPS_ACCOUNT", "CRPS_PORTFOLIO">>],
      [system |-> "CRIF", tables |-> <<"CRIF_MEMBER", "CRIF_RECORD", "CRIF_HISTORY">>],
      [system |-> "GNAT", tables |-> <<"GNAT_NAME", "GNAT_ADDRESS", "GNAT_TELEPHONE">>],
      [system |-> "Globestar", tables |-> <<"GLOBESTAR_TRANSACTION", "GLOBESTAR_ACCOUNT">>],
      [system |-> "Triumph", tables |-> <<"TRIUMPH_DATA", "TRIUMPH_HISTORY">>],
      [system |-> "CARS", tables |-> <<"CARS_RECORD", "CARS_TRANSACTION">>],
      [system |-> "MNS", tables |-> <<"MNS_NOTIFICATION", "MNS_TEMPLATE">>],
      [system |-> "CARE", tables |-> <<"CARE_CASE", "CARE_INTERACTION">>]>>

\* str.upper() on the atoms of the SQL texts
Upper(a) ==
    CASE a = "select" -> "SELECT" [] a = "from" -> "FROM" [] a = "join" -> "JOIN"
      [] a = "update" -> "UPDATE" [] a = "crps_customer" -> "CRPS_CUSTOMER"
      [] a = "Crif_Member" -> "CRIF_MEMBER" [] a = "orders" -> "ORDERS" [] OTHER -> a

\* x in text, x one atom
Contains(text, x) == \E i \in DOMAIN text : text[i] = x

\* text.startswith(x), x one atom
StartsWith(text, x) == text # <<>> /\ text[1] = x

LegacyTableUsage(table_name, system, file_path, class_name, method_name, usage_type) ==
    [table_name |-> table_name, system |-> system, file_path |-> file_path,
     class_name |-> class_name, method_name |-> method_name, usage_type |-> usage_type]

\* _get_system_for_table(table_name)
GetSystemForTable(table_name) ==
    LET owns(i) == \E j \in DOMAIN LegacySystems[i].tables :
                       StartsWith(table_name, LegacySystems[i].tables[j])
        owners == {i \in DOMAIN LegacySystems : owns(i)}
    IN  IF owners = {} THEN None
        ELSE LegacySystems[CHOOSE i \in owners : \A k \in owners : i <= k].system

\* _add_table_usage(table_name, file_path, class_name, method_name, usage_type)
AddTableUsage(usages, table_name, file_path, class_name, method_name, usage_type) ==
    LET system == GetSystemForTable(table_name) IN
    IF Truthy(system)
    THEN Append(usages, LegacyTableUsage(table_name, system, file_path, class_name,
                                         method_name, usage_type))
    ELSE usages

\* the configured table names, system by system
LegacyTables == Concat([i \in DOMAIN LegacySystems |-> LegacySystems[i].tables])

\* the mutation of CheckSqlForTables in which SELECT wins over JOIN
CheckSqlForTablesSelectFirst(usages, sql, file_path, class_name, method_name) ==
    LET joined == IF Contains(sql, "JOIN") THEN "JOIN" ELSE "Other"
        usage_type == IF Contains(sql, "SELECT") THEN "SELECT" ELSE joined
        Table(acc, table) ==
            IF Contains(sql, table)
            THEN AddTableUsage(acc, <<table>>, file_path, class_name, method_name, usage_type)
            ELSE acc
    IN  FoldSeq(Table, usages, LegacyTables)

\* _check_sql_for_tables(sql, file_path, class_name, method_name)
CheckSqlForTables(usages, sql, file_path, class_name, method_name) ==
    LET selected == IF Contains(sql, "SELECT") THEN "SELECT" ELSE "Other"
        usage_type == IF Contains(sql, "JOIN") THEN "JOIN" ELSE selected
        Table(acc, table) ==
            IF Contains(sql, table)
            THEN AddTableUsage(acc, <<table>>, file_path, class_name, method_name, usage_type)
            ELSE acc
    IN  FoldSeq(Table, usages, LegacyTables)

\* the body of the loop over the string nodes of a method (lines 49-50), for
\* the node whose value is the text given
StringNode(usages, value, file_path, class_name, method_name) ==
    CheckSqlForTables(usages, [n \in DOMAIN value |-> Upper(value[n])], file_path,
                      class_name, method_name)

\* javalang.tree names the node of a literal Literal; it has no attribute
\* String (String is a token class of javalang.tokenizer)
TreeHasString == FALSE

\* _analyze_sql_queries(tree, file_path): line 48 evaluates javalang.tree.String
\* when the loop reaches the first method of the text
AnalyzeSqlQueries(usages, t, file_path) ==
    IF ~TreeHasString
    THEN [exc |-> IF \E i \in DOMAIN t : t[i].methods # <<>> THEN NoAttribute ELSE None,
          usages |-> usages]
    ELSE LET sqls == Concat([i \in DOMAIN t |->
                        Concat([j \in DOMAIN t[i].methods |->
                            [k \in DOMAIN t[i].methods[j].strings |->
                                [class_name |-> t[i].name, method_name |-> t[i].methods[j].name,
                                 sql |-> [n \in DOMAIN t[i].methods[j].strings[k] |->
                                            Upper(t[i].methods[j].strings[k][n])]]]])])
             String(acc, s) == CheckSqlForTables(acc, s.sql, file_path, s.class_name, s.method_name)
         IN  [exc |-> None, usages |-> FoldSeq(String, usages, sqls)]

RECURSIVE GetTableNameFromAnnotation(_)
\* _get_table_name_from_annotation(annotations): [exc, value].  The None it
\* returns is modelled by the empty text: the caller tests its truth value.
GetTableNameFromAnnotation(annotations) ==
    IF annotations = <<>> THEN [exc |-> None, value |-> <<>>]
    ELSE LET annotation == Head(annotations) IN
         IF annotation.name = "Table" /\ annotation.form \in {"value", "array"}
         THEN [exc |-> NoAttribute, value |-> <<>>]
         ELSE IF /\ annotation.name = "Table"
                 /\ annotation.form = "pairs"
                 /\ annotation.key = "name"
                 /\ annotation.value # <<>>
         THEN [exc |-> None, value |-> annotation.value]
         ELSE GetTableNameFromAnnotation(Tail(annotations))

\* _analyze_entity_annotations(tree, file_path), one class
EntityAnnotations(r, file_path, node) ==
    IF r.exc # None \/ ~HasAnnotation(node.annotations, "Entity") THEN r
    ELSE LET table_name == GetTableNameFromAnnotation(node.annotations) IN
         IF table_name.exc # None THEN [r EXCEPT !.exc = table_name.exc]
         ELSE IF table_name.value = <<>> THEN r
         ELSE [r EXCEPT !.usages = AddTableUsage(@, table_name.value, file_path, node.name,
                                                 "Entity Class", "JPA Entity")]

\* _analyze_entity_annotations(tree, file_path)
AnalyzeEntityAnnotations(usages, t, file_path) ==
    LET Step(r, node) == EntityAnnotations(r, file_path, node)
    IN  FoldSeq(Step, [exc |-> None, usages |-> usages], t)

----------------------------------------------------------------------------
(* The directory tree of a project, as ProjectAnalyzer reads it.  Paths    *)
(* are atom sequences ("/", names and parts of names), so that substring   *)
(* tests on them are modelled by what they do.  The tree is what os.walk   *)
(* yields of it: a list of directories, each with its path relative to the *)
(* project path (empty for the project directory itself) and its files in  *)
(* the order of the listing; a file is [name, readable, code], and code    *)
(* carries besides the fields of a text the name on its package line (None *)
(* if it has none).                                                        *)

SourceFile(name, readable, c) == [name |-> name, readable |-> readable, code |-> c]
Directory(dir, files) == [dir |-> dir, files |-> files]
Packaged(package, parses, cs) ==
    [empty |-> FALSE, declares |-> parses, parses |-> parses, classes |-> cs,
     package |-> package]

----------------------------------------------------------------------------
(* The analysed texts *)

Digits == <<"1", "2", "3", "4">>
ClassNames == <<"Order", "Svc", "Audit", "Probe">>
MethodNames == {"ship", "load"}
Qualifiers == {None, "", "billing", "audit"}

Invocations ==
    {MethodInvocation(q, "charge", <<>>) : q \in Qualifiers}
        \cup {MethodInvocation("billing", "charge", <<Literal("1")>>),
              MethodInvocation("", "log", <<MemberReference, Literal("\"x\"")>>)}

Bodies == {NoBody} \cup {Body(cs) : cs \in SeqsUpTo(Invocations, MaxCalls)}

\* class Order { void ship() <body> }
BodyCodes ==
    {Unit(<<Class("Order", None, <<>>, <<>>, <<Method("ship", <<>>, None, b)>>)>>) : b \in Bodies}

\* the j-th method of the i-th class calls m<i><j>()
MarkedMethod(n, i, j) ==
    Method(n, <<>>, None, Body(<<MethodInvocation("", "m" \o Digits[i] \o Digits[j], <<>>)>>))

\* up to MaxClasses classes, each with up to `most` methods named from
\* MethodNames (so a name can repeat within a class and across classes)
Selection(most) ==
    UNION {
        {Unit([i \in 1..k |->
                 Class(ClassNames[i], None, <<>>, <<>>,
                       [j \in DOMAIN ns[i] |-> MarkedMethod(ns[i][j], i, j)])]) :
            ns \in [1..k -> SeqsUpTo(MethodNames, most)]} :
        k \in 0..MaxClasses}

SelectionCodes == Selection(MaxMethods)

CallCodes == BodyCodes \cup SelectionCodes

FieldDecls ==
    {Field(t, mods, <<"f">>) : t \in {"A", "Engine", "int", "String"},
                              mods \in {{"private"}, {"private", "final"}}}

\* class B [extends A] { <fields> }
DepFieldCodes ==
    {Unit(<<Class("B", ext, <<>>, fs, <<>>)>>) :
        ext \in {None, "A"}, fs \in SeqsUpTo(FieldDecls, MaxFields)}

Signatures ==
    {Method("m", ps, rt, NoBody) : ps \in {<<>>, <<"A">>, <<"long">>}, rt \in {None, "A"}}
        \cup {Method("m", <<"Engine", "A">>, "Boolean", NoBody)}

\* class B [extends A] { <abstract methods> }
DepMethodCodes ==
    {Unit(<<Class("B", ext, <<>>, <<>>, ms)>>) :
        ext \in {None, "A"}, ms \in SeqsUpTo(Signatures, MaxMethods)}

\* class B [extends A] [implements ...] { [A f;] [m] }
DepMixedCodes ==
    {Unit(<<Class("B", ext, impl, fs, ms)>>) :
        ext \in {None, "A"},
        impl \in {<<>>, <<"A">>, <<"Runnable">>, <<"Runnable", "A">>},
        fs \in {<<>>, <<Field("A", {}, <<"f">>)>>, <<Field("A", {"final"}, <<"f", "g">>)>>},
        ms \in {<<>>, <<Method("m", <<"A">>, None, NoBody)>>,
                <<Method("m", <<>>, "A", NoBody)>>}}

\* up to MaxClasses classes named A, B, C, ..., each extending nothing or one
\* of the names
ChainNames == <<"A", "B", "C", "D">>
ChainCodes ==
    UNION {
        {Unit([i \in 1..k |-> Class(ChainNames[i], ext[i], <<>>, <<>>, <<>>)]) :
            ext \in [1..k -> {None} \cup {ChainNames[n] : n \in 1..(MaxClasses + 1)}]} :
        k \in 0..MaxClasses}

DepCodes == DepFieldCodes \cup DepMethodCodes \cup DepMixedCodes \cup ChainCodes

\* the method names asked for; "refund" is declared nowhere
TargetNames == MethodNames \cup {"refund", ""}

\* class Svc: annotated or not as an entity of a configured table
\* (CRPS_CUSTOMER) or of another one (ORDERS)
EntityAnnotationLists ==
    {<<>>, <<Marker("Entity")>>,
     <<Annotation("Table", "pairs", "name", Quoted(<<"CRPS_CUSTOMER">>))>>,
     <<Marker("Entity"), Annotation("Table", "pairs", "schema", Quoted(<<"crm">>))>>,
     <<Marker("Entity"), Annotation("Table", "value", None, Quoted(<<"CRPS_CUSTOMER">>))>>}
        \cup {<<Marker("Entity"), Annotation("Table", "pairs", "name", Quoted(<<name>>))>> :
                 name \in {"CRPS_CUSTOMER", "ORDERS"}}

\* methods load and ship, by the string literals below them
SqlMethods ==
    {AnnotatedMethod("load", <<>>, <<>>, None, Body(<<>>), <<Quoted(sql)>>) :
        sql \in {<<"SELECT", "*", "FROM", "CRPS_CUSTOMER">>,
                 <<"select", "*", "from", "crps_customer", "join", "Crif_Member">>,
                 <<"update", "crps_customer">>}}
        \cup {AnnotatedMethod("ship", <<>>, <<>>, None, Body(<<>>), strings) :
                 strings \in {<<>>, <<Quoted(<<"hello">>)>>}}

\* @Entity @Table(name = "CRPS_CUSTOMER") class Customer { }
ProbeEntity ==
    AnnotatedClass("Customer",
                   <<Marker("Entity"),
                     Annotation("Table", "pairs", "name", Quoted(<<"CRPS_CUSTOMER">>))>>,
                   <<>>)

\* one class Svc, or the entity Customer before or after it
LegacyCodes ==
    {Unit(<<AnnotatedClass("Svc", annotations, ms)>>) :
        annotations \in EntityAnnotationLists, ms \in SeqsUpTo(SqlMethods, MaxMethods)}
        \cup {Unit(<<ProbeEntity, AnnotatedClass("Svc", <<>>, <<m>>)>>) : m \in SqlMethods}
        \cup {Unit(<<AnnotatedClass("Svc", <<>>, <<m>>), ProbeEntity>>) : m \in SqlMethods}

\* "package shop;\nclass Order { void ship() { } }", "class Svc extends Order { }"
\* and "class Order {"
OrderSource ==
    Packaged("shop", TRUE,
             <<Class("Order", None, <<>>, <<>>, <<Method("ship", <<>>, None, Body(<<>>))>>)>>)
SvcSource == Packaged(None, TRUE, <<Class("Svc", "Order", <<>>, <<>>, <<>>)>>)
BrokenSource == Packaged(None, FALSE, <<>>)

\* Order.java and Svc.java (each in order, unreadable, or broken),
\* OrderTest.java, contest.java and notes.txt
SourceFiles ==
    {SourceFile(<<"Order", ".java">>, TRUE, OrderSource),
     SourceFile(<<"Order", ".java">>, FALSE, OrderSource),
     SourceFile(<<"Order", ".java">>, TRUE, BrokenSource),
     SourceFile(<<"Svc", ".java">>, TRUE, SvcSource),
     SourceFile(<<"Svc", ".java">>, FALSE, SvcSource),
     SourceFile(<<"Svc", ".java">>, TRUE, BrokenSource),
     SourceFile(<<"Order", "Test", ".java">>, TRUE, OrderSource),
     SourceFile(<<"con", "test", ".java">>, TRUE, SvcSource),
     SourceFile(<<"notes", ".txt">>, TRUE, BrokenSource)}

\* the listings of a directory: no two files of one name
Listings(most) ==
    {fs \in SeqsUpTo(SourceFiles, most) :
        \A i, j \in DOMAIN fs : fs[i].name = fs[j].name => i = j}

\* one directory (the project directory, src or src/test) with up to MaxFiles
\* files, or the project directory and src with one file each
Projects ==
    {<<Directory(dir, fs)>> :
        dir \in {<<>>, <<"src">>, <<"src", "/", "test">>}, fs \in Listings(MaxFiles)}
        \cup {<<Directory(<<>>, fs), Directory(<<"src">>, gs)>> :
                 fs \in Listings(1), gs \in Listings(1)}

\* /srv/app and /srv/latest/app
ProjectPaths == {<<"/", "srv", "/", "app">>, <<"/", "srv", "/", "la", "test", "/", "app">>}

\* @RestController [@RequestMapping("/orders") | @RequestMapping({...})]
ControllerAnnotationLists ==
    {<<Marker("RestController")>>,
     <<Marker("RestController"),
       Annotation("RequestMapping", "value", None, Quoted(<<"/", "orders">>))>>,
     <<Marker("RestController"),
       Annotation("RequestMapping", "array", None, <<>>)>>}

\* @GetMapping("/all") String list()
\* @PostMapping(path = "/new") ResponseEntity<Order> create(@RequestBody Order order)
\* @GetMapping ResponseEntity<?> find()
\* void helper()
EndpointMethods ==
    {AnnotatedMethod("list",
                     <<Annotation("GetMapping", "value", None, Quoted(<<"/", "all">>))>>,
                     <<>>, ReferenceType("String", <<>>), Body(<<>>), <<>>),
     AnnotatedMethod("create",
                     <<Annotation("PostMapping", "pairs", "path", Quoted(<<"/", "new">>))>>,
                     <<Parameter(ReferenceType("Order", <<>>), "order",
                                 <<Marker("RequestBody")>>)>>,
                     ReferenceType("ResponseEntity", <<"Order">>), Body(<<>>), <<>>),
     AnnotatedMethod("find", <<Marker("GetMapping")>>, <<>>,
                     ReferenceType("ResponseEntity", <<None>>), Body(<<>>), <<>>),
     AnnotatedMethod("helper", <<>>, <<>>, Void, Body(<<>>), <<>>)}

\* @FeignClient("billing") class BillingClient, @KafkaListener("paid") class
\* Audit, @WebService(wsdlLocation = "quote.wsdl") class Quote, and the like
ClientClasses ==
    {AnnotatedClass("BillingClient", <<a>>, <<>>) :
        a \in {Annotation("FeignClient", "value", None, Quoted(<<"billing">>)),
               Annotation("FeignClient", "pairs", "name", Quoted(<<"billing">>)),
               Annotation("FeignClient", "array", None, <<>>)}}
        \cup {AnnotatedClass("Audit", <<a>>, <<>>) :
                 a \in {Annotation("KafkaListener", "value", None, Quoted(<<"paid">>)),
                        Annotation("KafkaListener", "array", None, <<>>)}}
        \cup {AnnotatedClass("Quote", <<a>>,
                             <<AnnotatedMethod("price", <<Marker("WebMethod")>>, <<>>, rt,
                                               Body(<<>>), <<>>)>>) :
                 a \in {Marker("WebService"),
                        Annotation("WebService", "pairs", "wsdlLocation",
                                   Quoted(<<"quote", ".wsdl">>))},
                 rt \in {Void, ReferenceType("Money", <<>>)}}

\* @RestController @RequestMapping("/orders") class OrderController with one method
OneMethodControllers ==
    {AnnotatedClass("OrderController",
                    <<Marker("RestController"),
                      Annotation("RequestMapping", "value", None, Quoted(<<"/", "orders">>))>>,
                    <<m>>) : m \in EndpointMethods}

\* one controller, or two classes each a client or a controller of one method
MicroserviceCodes ==
    {Unit(<<AnnotatedClass("OrderController", annotations, ms)>>) :
        annotations \in ControllerAnnotationLists, ms \in SeqsUpTo(EndpointMethods, MaxMethods)}
        \cup {Unit(<<c1, c2>>) : c1, c2 \in ClientClasses \cup OneMethodControllers}

\* @RestController class Probe { @GetMapping("/ping") String ping() { } }
ProbeService ==
    Unit(<<AnnotatedClass("Probe", <<Marker("RestController")>>,
               <<AnnotatedMethod("ping",
                     <<Annotation("GetMapping", "value", None, Quoted(<<"/", "ping">>))>>,
                     <<>>, ReferenceType("String", <<>>), Body(<<>>), <<>>)>>)>>)

\* the scanned texts
Contents == SeqsUpTo(Atoms, MaxAtoms)

\* the texts of string literals, by their words; orders is no configured table
SqlAtoms == {"select", "SELECT", "join", "JOIN", "crps_customer", "CRIF_MEMBER", "orders"}
SqlLiterals == SeqsUpTo(SqlAtoms, MaxAtoms)

\* "select * from crps_customer"
ProbeLiteral == <<"select", "*", "from", "crps_customer">>

\* "Email\nGET topic api\ncity"
ProbeContent == <<"Email", "\n", "GET", " ", "topic", " ", "api", "\n", "city">>

----------------------------------------------------------------------------
(* The entry points.  Each returns the analyzer's fields after the call,   *)
(* the exception it raised (None when it returned), whether                *)
(* javalang.parse.parse was called, and the diagram text it returned.      *)

Outcome(self, exc, parsed, out) == [self |-> self, exc |-> exc, parsed |-> parsed, out |-> out]

\* CallGraphAnalyzer.analyze_calls(code)
AnalyzeCalls(self, c) ==
    LET p == Parse(c) IN
    IF ~p.ok
    THEN Outcome(self, "Exception: Failed to analyze call graph", TRUE, <<>>)
    ELSE Outcome(AnalyzeClasses(self, p.tree), None, TRUE, <<>>)

\* analyze_class_dependencies keeping only the declared classes as nodes
AnalyzeClassDependenciesDeclaredOnly(self, c) ==
    LET p == Parse(c)
        g == AnalyzeClassRelationships(DiGraph, p.tree)
    IN  IF ~p.ok
        THEN Outcome(self, "Exception: Failed to analyze class dependencies", TRUE, <<>>)
        ELSE Outcome([self EXCEPT !.graph =
                         [g EXCEPT !.node = {p.tree[i].name : i \in DOMAIN p.tree}]],
                     None, TRUE, <<>>)

\* CallGraphAnalyzer.analyze_class_dependencies(code)
AnalyzeClassDependencies(self, c) ==
    LET p == Parse(c) IN
    IF ~p.ok
    THEN Outcome(self, "Exception: Failed to analyze class dependencies", TRUE, <<>>)
    ELSE Outcome([self EXCEPT !.graph = AnalyzeClassRelationships(DiGraph, p.tree)],
                 None, TRUE, <<>>)

\* the errors of lines 124 and 136-143
NotFoundError == "ValueError: Method not found in any class"
ImageError == "Error generating diagram image"

\* _preprocess_java_code followed by _validate_java_code: the texts of the
\* model hold no comment, byte-order mark or stray semicolon, so what is left
\* is the test for a class, interface or enum declaration and for braces
ValidateJavaCode(c) == c.declares

\* SequenceDiagramGenerator.analyze_method_calls(code, method_name);
\* image_ok: the rendering service answered the request with status 200
AnalyzeMethodCalls(self, c, method_name, image_ok) ==
    IF c.empty \/ method_name = ""
    THEN Outcome(self, "ValueError: Code and method name must not be empty", FALSE, <<>>)
    ELSE IF ~ValidateJavaCode(c)
    THEN Outcome(self, "ValueError: Invalid Java code structure", FALSE, <<>>)
    ELSE IF ~Parse(c).ok
    THEN Outcome(self, "ValueError: Failed to parse Java code", TRUE, <<>>)
    ELSE LET r == FindAndAnalyze(self, Parse(c).tree, method_name) IN
         IF ~r.method_found
         THEN Outcome(r.self, NotFoundError, TRUE, <<>>)
         ELSE IF ~image_ok
         THEN Outcome(r.self, ImageError, TRUE, <<>>)
         ELSE Outcome(r.self, None, TRUE, GenerateSequenceDiagram(r.self))

\* the mutation of ParseCode that empties the class list before it parses
ParseCodeClearing(self, c) ==
    LET p == Parse(c) IN
    IF ~p.ok
    THEN Outcome([self EXCEPT !.classes = <<>>], "Exception: Failed to parse Java code",
                 TRUE, <<>>)
    ELSE Outcome([tree |-> p, classes |-> ParseClasses(p.tree)], None, TRUE, <<>>)

\* JavaCodeParser.parse_code(code); self == [tree, classes]
ParseCode(self, c) ==
    LET p == Parse(c) IN
    IF ~p.ok
    THEN Outcome(self, "Exception: Failed to parse Java code", TRUE, <<>>)
    ELSE Outcome([tree |-> p, classes |-> ParseClasses(p.tree)], None, TRUE, <<>>)

\* LegacyTableAnalyzer.analyze_code(file_path, code): an exception is printed
\* and not raised; out is the exception that was printed
LegacyAnalyzeCode(usages, file_path, c) ==
    LET p == Parse(c) IN
    IF ~p.ok THEN Outcome(usages, None, TRUE, "JavaSyntaxError")
    ELSE LET sql == AnalyzeSqlQueries(usages, p.tree, file_path) IN
         IF sql.exc # None THEN Outcome(sql.usages, None, TRUE, sql.exc)
         ELSE LET entity == AnalyzeEntityAnnotations(sql.usages, p.tree, file_path)
              IN  Outcome(entity.usages, None, TRUE, entity.exc)

----------------------------------------------------------------------------
(* ProjectAnalyzer *)

\* self.test_patterns
TestPatterns ==
    <<<<"test">>, <<"test", "s">>, <<"Test", ".java">>, <<"Test", "s", ".java">>,
      <<"/", "test", "/">>, <<"/", "test", "s", "/">>>>

\* is_test_file(file_path)
IsTestFile(file_path) ==
    \E i \in DOMAIN TestPatterns :
        IsInfix(LowerText(TestPatterns[i]), LowerText(file_path))

\* extract_package_name(code)
ExtractPackageName(c) == IF c.package = None THEN "default" ELSE c.package

\* str(n) of a small number
Repr(n) == IF n = 0 THEN "0" ELSE Digits[n]

\* the description of a file (lines 64-66)
Description(cs) ==
    "File contains " \o Repr(Len(cs)) \o " classes"
        \o (IF cs # <<>> THEN ": " \o JoinComma([i \in DOMAIN cs |-> cs[i].name]) ELSE "")

JavaFile(path, package, cs, description) ==
    [path |-> path, package |-> package, classes |-> cs, description |-> description]

\* the root os.walk reports for a directory
WalkRoot(project_path, dir) ==
    IF dir = <<>> THEN project_path ELSE project_path \o <<"/">> \o dir

\* os.path.relpath(file_path, project_path), file_path below project_path
RelPath(file_path, project_path) ==
    SubSeq(file_path, Len(project_path) + 2, Len(file_path))

\* the mutation of the loop body that reports a file that does not parse
\* with the classes the parser still holds
ProjectFileStale(acc, project_path, f) ==
    IF f.file.name[Len(f.file.name)] # ".java" \/ IsTestFile(f.file.name) THEN acc
    ELSE IF ~f.file.readable THEN acc
    ELSE LET file_path == f.root \o <<"/">> \o f.file.name
             r == ParseCode(acc.parser, f.file.code)
         IN  [java_files |->
                  Append(acc.java_files,
                         JavaFile(RelPath(file_path, project_path),
                                  ExtractPackageName(f.file.code),
                                  r.self.classes, Description(r.self.classes))),
              parser |-> r.self]

\* the body of the loop over the files of a directory (lines 51-84);
\* acc == [java_files, parser], f == [root, file]
ProjectFile(acc, project_path, f) ==
    IF f.file.name[Len(f.file.name)] # ".java" \/ IsTestFile(f.file.name) THEN acc
    ELSE IF ~f.file.readable THEN acc
    ELSE LET file_path == f.root \o <<"/">> \o f.file.name
             r == ParseCode(acc.parser, f.file.code)
         IN  IF r.exc # None THEN [acc EXCEPT !.parser = r.self]
             ELSE [java_files |->
                      Append(acc.java_files,
                             JavaFile(RelPath(file_path, project_path),
                                      ExtractPackageName(f.file.code),
                                      r.self.classes, Description(r.self.classes))),
                   parser |-> r.self]

\* ProjectAnalyzer.analyze_project(project_path): [java_files, parser]
AnalyzeProject(parser, project_path, walk) ==
    LET visited ==
            Concat([i \in DOMAIN walk |->
                      IF IsTestFile(WalkRoot(project_path, walk[i].dir)) THEN <<>>
                      ELSE [k \in DOMAIN walk[i].files |->
                              [root |-> WalkRoot(project_path, walk[i].dir),
                               file |-> walk[i].files[k]]]])
        File(acc, f) == ProjectFile(acc, project_path, f)
    IN  FoldSeq(File, [java_files |-> <<>>, parser |-> parser], visited)

----------------------------------------------------------------------------
(* MicroserviceAnalyzer.  Paths, topics, service names and details are     *)
(* texts (atom sequences); the empty text models "" and a None that is     *)
(* only tested for its truth value.  Each sub-analysis returns [exc, ...]: *)
(* the exception it raised, if any, and the list as it stands then.        *)

\* what the loops over annotation.element return at the first element:
\*   a Literal iterates as the tuple ((), Literal): elem[1].value
\*   an ElementArrayValue iterates as ((), ElementArrayValue), which has no value
\*   an ElementValuePair of a Literal: elem.value.value
FirstElement(annotation) ==
    IF annotation.form = "array" THEN [exc |-> NoAttribute, value |-> <<>>]
    ELSE [exc |-> None, value |-> annotation.value]

RECURSIVE FirstElementOf(_, _)
\* the first element of the first annotation, among those named, that has an
\* element; the empty text if there is none
FirstElementOf(annotations, names) ==
    IF annotations = <<>> THEN [exc |-> None, value |-> <<>>]
    ELSE IF Head(annotations).name \in names /\ Head(annotations).form # "none"
    THEN FirstElement(Head(annotations))
    ELSE FirstElementOf(Tail(annotations), names)

\* _get_request_mapping_path(annotations)
GetRequestMappingPath(annotations) ==
    FirstElementOf(annotations, {"RequestMapping", "GetMapping", "PostMapping",
                                 "PutMapping", "DeleteMapping"})

\* _get_feign_client_name(annotations)
GetFeignClientName(annotations) == FirstElementOf(annotations, {"FeignClient"})

\* _get_kafka_topic(annotations)
GetKafkaTopic(annotations) == FirstElementOf(annotations, {"KafkaListener"})

RECURSIVE GetWsdlLocation(_)
\* _get_wsdl_location(annotations): only a pair named wsdlLocation is returned
GetWsdlLocation(annotations) ==
    IF annotations = <<>> THEN <<>>
    ELSE IF /\ Head(annotations).name = "WebService"
            /\ Head(annotations).form = "pairs"
            /\ Head(annotations).key = "wsdlLocation"
    THEN Head(annotations).value
    ELSE GetWsdlLocation(Tail(annotations))

RECURSIVE RStrip(_)
\* text.rstrip('/')
RStrip(text) ==
    IF text # <<>> /\ text[Len(text)] = "/" THEN RStrip(SubSeq(text, 1, Len(text) - 1))
    ELSE text

RECURSIVE LStrip(_)
\* text.lstrip('/')
LStrip(text) == IF text # <<>> /\ text[1] = "/" THEN LStrip(Tail(text)) ELSE text

\* annotation.name.replace("Mapping", "").upper()
HttpMethod(name) ==
    CASE name = "GetMapping" -> "GET" [] name = "PostMapping" -> "POST"
      [] name = "PutMapping" -> "PUT" [] name = "DeleteMapping" -> "DELETE"

APIEndpoint(path, method, service, class_name, method_name) ==
    [path |-> path, method |-> method, service |-> service, class_name |-> class_name,
     method_name |-> method_name, request_params |-> <<>>, response_fields |-> <<>>,
     legacy_tables |-> <<>>, client_type |-> "Direct Controller", called_services |-> <<>>]

\* _extract_endpoint_info, the loop over method.annotations (lines 107-117);
\* acc == [exc, http_method, path]
EndpointAnnotation(acc, annotation) ==
    IF acc.exc # None
          \/ annotation.name \notin {"GetMapping", "PostMapping", "PutMapping", "DeleteMapping"}
    THEN acc
    ELSE IF annotation.form = "none"
    THEN [acc EXCEPT !.http_method = HttpMethod(annotation.name)]
    ELSE [exc |-> FirstElement(annotation).exc,
          http_method |-> HttpMethod(annotation.name),
          path |-> IF annotation.form = "array" THEN acc.path ELSE annotation.value]

\* _extract_endpoint_info(method, base_path, service_name, class_name):
\* [exc, found, endpoint]
ExtractEndpointInfo(method, base_path, service_name, class_name) ==
    LET a == FoldSeq(EndpointAnnotation, [exc |-> None, http_method |-> "GET", path |-> <<>>],
                     method.annotations)
        full_path == RStrip(base_path) \o <<"/">> \o LStrip(a.path)
    IN  [exc |-> a.exc,
         found |-> a.exc = None /\ (a.path # <<>> \/ base_path # <<>>),
         endpoint |-> APIEndpoint(full_path, a.http_method, service_name, class_name,
                                  method.name)]

\* _find_legacy_tables(method): the patterns are searched in str(method.body);
\* the bodies of the analysed texts hold none of FROM, UPDATE, INSERT INTO and
\* DELETE FROM
FindLegacyTables(method) == <<>>

\* _extract_request_parameters(method)
ExtractRequestParameters(method) ==
    LET bound == SelectSeq(method.parameters,
                           LAMBDA param :
                               \/ HasAnnotation(param.annotations, "RequestParam")
                               \/ HasAnnotation(param.annotations, "PathVariable")
                               \/ HasAnnotation(param.annotations, "RequestBody"))
    IN  [i \in DOMAIN bound |-> bound[i].type.name \o " " \o bound[i].name]

\* _extract_response_fields(method): [exc, fields].  The type argument ? has
\* type None, and arg.type.name raises on it.
ExtractResponseFields(method) ==
    LET return_type == method.return_type IN
    IF return_type.name = None THEN [exc |-> None, fields |-> <<>>]
    ELSE IF return_type.name # "ResponseEntity"
    THEN [exc |-> None, fields |-> <<return_type.name>>]
    ELSE IF \E i \in DOMAIN return_type.arguments : return_type.arguments[i] = None
    THEN [exc |-> NoAttribute, fields |-> <<>>]
    ELSE [exc |-> None, fields |-> <<return_type.name>> \o return_type.arguments]

\* _analyze_service_calls(method): the test 'restTemplate' in
\* str(node.qualifier).lower() looks for a capital T in a lower-case text, and
\* no FieldDeclaration lies below the methods of the analysed texts
AnalyzeServiceCalls(method) == <<>>

RECURSIVE RestMethods(_, _, _, _, _)
\* _analyze_rest_controllers, the loop over node.methods (lines 66-85);
\* acc == [exc, list]
RestMethods(acc, ms, base_path, service_name, class_name) ==
    IF ms = <<>> \/ acc.exc # None THEN acc
    ELSE LET method == Head(ms)
             info == ExtractEndpointInfo(method, base_path, service_name, class_name)
             response == ExtractResponseFields(method)
             endpoint == [info.endpoint EXCEPT
                             !.legacy_tables = FindLegacyTables(method),
                             !.request_params = ExtractRequestParameters(method),
                             !.response_fields = response.fields,
                             !.called_services = AnalyzeServiceCalls(method)]
             next == IF info.exc # None THEN [acc EXCEPT !.exc = info.exc]
                     ELSE IF ~info.found THEN acc
                     ELSE IF response.exc # None THEN [acc EXCEPT !.exc = response.exc]
                     ELSE [acc EXCEPT !.list = Append(@, endpoint)]
         IN  RestMethods(next, Tail(ms), base_path, service_name, class_name)

RECURSIVE AnalyzeRestControllers(_, _, _)
\* _analyze_rest_controllers(tree, service_name); acc == [exc, list]
AnalyzeRestControllers(acc, t, service_name) ==
    IF t = <<>> \/ acc.exc # None THEN acc
    ELSE LET node == Head(t)
             base_path == GetRequestMappingPath(node.annotations)
             next == IF ~HasAnnotation(node.annotations, "RestController") THEN acc
                     ELSE IF base_path.exc # None THEN [acc EXCEPT !.exc = base_path.exc]
                     ELSE RestMethods(acc, node.methods, base_path.value, service_name,
                                      node.name)
         IN  AnalyzeRestControllers(next, Tail(t), service_name)

ServiceDependency(src, target, type, details) ==
    [source |-> src, target |-> target, type |-> type, details |-> details,
     api_calls |-> <<>>]

\* _analyze_feign_clients(tree, service_name), one class
FeignClient(acc, node, service_name) ==
    IF acc.exc # None \/ ~HasAnnotation(node.annotations, "FeignClient") THEN acc
    ELSE LET target_service == GetFeignClientName(node.annotations) IN
         IF target_service.exc # None THEN [acc EXCEPT !.exc = target_service.exc]
         ELSE IF target_service.value = <<>> THEN acc
         ELSE [acc EXCEPT !.list =
                  Append(@, ServiceDependency(service_name, target_service.value, "feign",
                                              <<"FeignClient interface: ", node.name>>))]

\* _analyze_service_dependencies(tree, service_name), one class
KafkaListener(acc, node, service_name) ==
    IF acc.exc # None \/ ~HasAnnotation(node.annotations, "KafkaListener") THEN acc
    ELSE LET topic == GetKafkaTopic(node.annotations) IN
         IF topic.exc # None THEN [acc EXCEPT !.exc = topic.exc]
         ELSE IF topic.value = <<>> THEN acc
         ELSE [acc EXCEPT !.list =
                  Append(@, ServiceDependency(<<"kafka">>, service_name, "kafka",
                                              <<"Listens to topic: ">> \o topic.value))]

SOAPOperation(operation_name, interface, wsdl_location, input_params, output_type, service) ==
    [operation_name |-> operation_name, interface |-> interface,
     wsdl_location |-> wsdl_location, input_params |-> input_params,
     output_type |-> output_type, service |-> service]

\* _analyze_soap_services(tree, service_name), one class; operations is the list
SoapService(operations, node, service_name) ==
    IF ~HasAnnotation(node.annotations, "WebService") THEN operations
    ELSE LET wsdl_location == GetWsdlLocation(node.annotations)
             web == SelectSeq(node.methods,
                              LAMBDA method : HasAnnotation(method.annotations, "WebMethod"))
         IN  operations \o
             [i \in DOMAIN web |->
                 SOAPOperation(web[i].name, node.name,
                               IF wsdl_location # <<>> THEN wsdl_location
                               ELSE <<"Not specified">>,
                               [k \in DOMAIN web[i].parameters |->
                                   web[i].parameters[k].type.repr \o " "
                                       \o web[i].parameters[k].name],
                               IF web[i].return_type.name # None THEN web[i].return_type.repr
                               ELSE "void",
                               service_name)]

\* MicroserviceAnalyzer.analyze_code(code, service_name);
\* self == [api_endpoints, soap_operations, service_dependencies, service_names]
MicroserviceAnalyzeCode(self, c, service_name) ==
    LET p == Parse(c)
        failed == "Exception: Failed to analyze microservice code"
        rest == AnalyzeRestControllers([exc |-> None, list |-> self.api_endpoints], p.tree,
                                       service_name)
        Feign(acc, node) == FeignClient(acc, node, service_name)
        feign == FoldSeq(Feign, [exc |-> None, list |-> self.service_dependencies], p.tree)
        Soap(operations, node) == SoapService(operations, node, service_name)
        soap == FoldSeq(Soap, self.soap_operations, p.tree)
        Kafka(acc, node) == KafkaListener(acc, node, service_name)
        kafka == FoldSeq(Kafka, [exc |-> None, list |-> feign.list], p.tree)
        s1 == [self EXCEPT !.api_endpoints = rest.list]
        s2 == [s1 EXCEPT !.service_dependencies = feign.list]
        s3 == [s2 EXCEPT !.soap_operations = soap]
        s4 == [s3 EXCEPT !.service_dependencies = kafka.list]
    IN  IF ~p.ok THEN Outcome(self, failed, TRUE, <<>>)
        ELSE IF rest.exc # None THEN Outcome(s1, failed, TRUE, <<>>)
        ELSE IF feign.exc # None THEN Outcome(s2, failed, TRUE, <<>>)
        ELSE IF kafka.exc # None THEN Outcome(s4, failed, TRUE, <<>>)
        ELSE Outcome([s4 EXCEPT !.service_names = @ \cup {service_name}], None, TRUE, <<>>)

----------------------------------------------------------------------------
(* The state machine: one analyzer instance, and the calls made on it      *)

Call(op, c, name, r) ==
    [op |-> op, code |-> c, name |-> name, exc |-> r.exc, parsed |-> r.parsed, out |-> r.out]

CallGraphInputs == {source, ProbeCode, EmptyCode, GarbageCode}
\* <<code, method_name>>
SequenceInputs ==
    ({source} \X TargetNames) \cup ({EmptyCode, BlankCode, BrokenClassCode} \X {"ship"})
ParserInputs == {source, ProbeCode, EmptyCode, GarbageCode}
\* <<file_path, code>>
LegacyInputs == {<<"A.java", source>>, <<"B.java", Unit(<<ProbeEntity>>)>>,
                 <<"C.java", GarbageCode>>}
\* <<code, service_name>>
MicroserviceInputs ==
    {<<source, <<"orders">>>>, <<ProbeService, <<"probe">>>>, <<GarbageCode, <<"orders">>>>}
\* <<file_path, content>>
ScannerInputs == {<<"A.java", source>>, <<"B.java", ProbeContent>>}

\* __init__ of the classes
Construct ==
    /\ graph = DiGraph
    /\ methods = {}
    /\ current_class = None
    /\ interactions = <<>>
    /\ sd_class = None
    /\ classes = <<>>
    /\ tree = [ok |-> FALSE, tree |-> <<>>]
    /\ matches = <<>>
    /\ table_usages = <<>>
    /\ api_endpoints = <<>>
    /\ soap_operations = <<>>
    /\ service_dependencies = <<>>
    /\ service_names = {}
    /\ last = [op |-> "__init__", code |-> EmptyCode, name |-> None, exc |-> None,
               parsed |-> FALSE, out |-> <<>>]

InitCallGraph ==
    /\ Construct
    /\ analyzer = "CallGraphAnalyzer"
    /\ source \in BodyCodes \cup Selection(1) \cup DepCodes

InitSequence ==
    /\ Construct
    /\ analyzer = "SequenceDiagramGenerator"
    /\ source \in CallCodes

InitParser ==
    /\ Construct
    /\ analyzer = "JavaCodeParser"
    /\ source \in Selection(1) \cup DepCodes

InitScanner ==
    /\ Construct
    /\ analyzer \in {"DemographicPatternAnalyzer", "IntegrationPatternAnalyzer"}
    /\ source \in Contents

InitLegacy ==
    /\ Construct
    /\ analyzer = "LegacyTableAnalyzer"
    /\ source \in LegacyCodes

InitProject ==
    /\ Construct
    /\ analyzer = "ProjectAnalyzer"
    /\ source \in Projects

InitMicroservice ==
    /\ Construct
    /\ analyzer = "MicroserviceAnalyzer"
    /\ source \in MicroserviceCodes

Init ==
    \/ InitMicroservice
    \/ InitCallGraph
    \/ InitSequence
    \/ InitParser
    \/ InitScanner
    \/ InitLegacy
    \/ InitProject

CallGraphSelf == [graph |-> graph, methods |-> methods, current_class |-> current_class]

DoAnalyzeCalls ==
    /\ analyzer = "CallGraphAnalyzer"
    /\ \E c \in CallGraphInputs :
         LET r == AnalyzeCalls(CallGraphSelf, c) IN
         /\ graph' = r.self.graph
         /\ methods' = r.self.methods
         /\ current_class' = r.self.current_class
         /\ last' = Call("analyze_calls", c, None, r)
    /\ UNCHANGED <<sequenceVars, parserVars, scannerVars, legacyVars, microserviceVars,
                 analyzer, source>>

DoAnalyzeClassDependencies ==
    /\ analyzer = "CallGraphAnalyzer"
    /\ \E c \in CallGraphInputs :
         LET r == AnalyzeClassDependencies(CallGraphSelf, c) IN
         /\ graph' = r.self.graph
         /\ methods' = r.self.methods
         /\ current_class' = r.self.current_class
         /\ last' = Call("analyze_class_dependencies", c, None, r)
    /\ UNCHANGED <<sequenceVars, parserVars, scannerVars, legacyVars, microserviceVars,
                 analyzer, source>>

\* get_dependency_statistics(graph), called as app.py calls it: with the graph
\* that analyze_class_dependencies has just returned.  The call record keeps
\* the text of that analysis.
DoGetDependencyStatistics ==
    /\ analyzer = "CallGraphAnalyzer"
    /\ last.op = "analyze_class_dependencies"
    /\ last.exc = None
    /\ \E r \in {GetDependencyStatistics(graph)} :
         last' = [op |-> "get_dependency_statistics", code |-> last.code, name |-> None,
                  exc |-> r.exc, parsed |-> FALSE, out |-> r]
    /\ UNCHANGED <<callGraphVars, sequenceVars, parserVars, scannerVars, legacyVars,
                   microserviceVars, analyzer, source>>

DoAnalyzeMethodCalls ==
    /\ analyzer = "SequenceDiagramGenerator"
    /\ \E inp \in SequenceInputs, image_ok \in BOOLEAN :
         LET r == AnalyzeMethodCalls([interactions |-> interactions,
                                      current_class |-> sd_class],
                                     inp[1], inp[2], image_ok) IN
         /\ interactions' = r.self.interactions
         /\ sd_class' = r.self.current_class
         /\ last' = Call("analyze_method_calls", inp[1], inp[2], r)
    /\ UNCHANGED <<callGraphVars, parserVars, scannerVars, legacyVars, microserviceVars,
                 analyzer, source>>

DoParseCode ==
    /\ analyzer = "JavaCodeParser"
    /\ \E c \in ParserInputs :
         LET r == ParseCode([tree |-> tree, classes |-> classes], c) IN
         /\ tree' = r.self.tree
         /\ classes' = r.self.classes
         /\ last' = Call("parse_code", c, None, r)
    /\ UNCHANGED <<callGraphVars, sequenceVars, scannerVars, legacyVars, microserviceVars,
                 analyzer, source>>

DoGetClassRelationships ==
    /\ analyzer = "JavaCodeParser"
    /\ last.op = "parse_code"
    /\ last' = [op |-> "get_class_relationships", code |-> last.code, name |-> None,
                exc |-> None, parsed |-> FALSE,
                out |-> GetClassRelationships([tree |-> tree, classes |-> classes])]
    /\ UNCHANGED <<callGraphVars, sequenceVars, parserVars, scannerVars, legacyVars,
                   microserviceVars, analyzer, source>>

\* a call on a scanner: the file it was given and what it returned
ScannerCall(op, file_path, content, out) ==
    [op |-> op, code |-> content, name |-> file_path, exc |-> None, parsed |-> FALSE,
     out |-> out]

DoDemographicAnalyzeFile ==
    /\ analyzer = "DemographicPatternAnalyzer"
    /\ Len(matches) < MaxMatches
    /\ \E inp \in ScannerInputs :
         /\ matches' = DemographicAnalyzeFile(matches, inp[1], inp[2])
         /\ last' = ScannerCall("analyze_file", inp[1], inp[2], <<>>)
    /\ UNCHANGED <<callGraphVars, sequenceVars, parserVars, legacyVars, microserviceVars,
                   analyzer, source>>

DoDemographicGetPatternSummary ==
    /\ analyzer = "DemographicPatternAnalyzer"
    /\ last' = ScannerCall("get_pattern_summary", None, <<>>,
                           DemographicGetPatternSummary(matches))
    /\ UNCHANGED <<callGraphVars, sequenceVars, parserVars, scannerVars, legacyVars,
                   microserviceVars, analyzer, source>>

DoDemographicGetStatistics ==
    /\ analyzer = "DemographicPatternAnalyzer"
    /\ last' = ScannerCall("get_statistics", None, <<>>, DemographicGetStatistics(matches))
    /\ UNCHANGED <<callGraphVars, sequenceVars, parserVars, scannerVars, legacyVars,
                   microserviceVars, analyzer, source>>

DoIntegrationAnalyzeFile ==
    /\ analyzer = "IntegrationPatternAnalyzer"
    /\ Len(matches) < MaxMatches
    /\ \E inp \in ScannerInputs :
         /\ matches' = IntegrationAnalyzeFile(matches, inp[1], inp[2])
         /\ last' = ScannerCall("analyze_file", inp[1], inp[2], <<>>)
    /\ UNCHANGED <<callGraphVars, sequenceVars, parserVars, legacyVars, microserviceVars,
                   analyzer, source>>

DoIntegrationGetPatternSummary ==
    /\ analyzer = "IntegrationPatternAnalyzer"
    /\ last' = ScannerCall("get_pattern_summary", None, <<>>,
                           IntegrationGetPatternSummary(matches))
    /\ UNCHANGED <<callGraphVars, sequenceVars, parserVars, scannerVars, legacyVars,
                   microserviceVars, analyzer, source>>

DoIntegrationGetStatistics ==
    /\ analyzer = "IntegrationPatternAnalyzer"
    /\ last' = ScannerCall("get_statistics", None, <<>>, IntegrationGetStatistics(matches))
    /\ UNCHANGED <<callGraphVars, sequenceVars, parserVars, scannerVars, legacyVars,
                   microserviceVars, analyzer, source>>

DoLegacyAnalyzeCode ==
    /\ analyzer = "LegacyTableAnalyzer"
    /\ \E inp \in LegacyInputs :
         LET r == LegacyAnalyzeCode(table_usages, inp[1], inp[2]) IN
         /\ table_usages' = r.self
         /\ last' = Call("analyze_code", inp[2], inp[1], r)
    /\ UNCHANGED <<callGraphVars, sequenceVars, parserVars, scannerVars, microserviceVars,
                   analyzer, source>>

DoAnalyzeProject ==
    /\ analyzer = "ProjectAnalyzer"
    /\ \E project_path \in ProjectPaths :
         LET r == AnalyzeProject([tree |-> tree, classes |-> classes], project_path, source)
         IN  /\ tree' = r.parser.tree
             /\ classes' = r.parser.classes
             /\ last' = [op |-> "analyze_project", code |-> source, name |-> project_path,
                         exc |-> None, parsed |-> TRUE, out |-> r.java_files]
    /\ UNCHANGED <<callGraphVars, sequenceVars, scannerVars, legacyVars, microserviceVars,
                   analyzer, source>>

DoMicroserviceAnalyzeCode ==
    /\ analyzer = "MicroserviceAnalyzer"
    /\ Len(api_endpoints) + Len(soap_operations) + Len(service_dependencies) < MaxRecords
    /\ \E inp \in MicroserviceInputs :
         \E r \in {MicroserviceAnalyzeCode(
                        [api_endpoints |-> api_endpoints, soap_operations |-> soap_operations,
                         service_dependencies |-> service_dependencies,
                         service_names |-> service_names], inp[1], inp[2])} :
             /\ api_endpoints' = r.self.api_endpoints
             /\ soap_operations' = r.self.soap_operations
             /\ service_dependencies' = r.self.service_dependencies
             /\ service_names' = r.self.service_names
             /\ last' = Call("analyze_code", inp[1], inp[2], r)
    /\ UNCHANGED <<callGraphVars, sequenceVars, parserVars, scannerVars, legacyVars,
                   analyzer, source>>

NextCallGraph == DoAnalyzeCalls \/ DoAnalyzeClassDependencies \/ DoGetDependencyStatistics
NextSequence == DoAnalyzeMethodCalls
NextParser == DoParseCode \/ DoGetClassRelationships
NextScanner ==
    \/ DoDemographicAnalyzeFile
    \/ DoDemographicGetPatternSummary
    \/ DoDemographicGetStatistics
    \/ DoIntegrationAnalyzeFile
    \/ DoIntegrationGetPatternSummary
    \/ DoIntegrationGetStatistics
NextLegacy == DoLegacyAnalyzeCode
NextProject == DoAnalyzeProject
NextMicroservice == DoMicroserviceAnalyzeCode
Next ==
    \/ DoMicroserviceAnalyzeCode
    \/ DoAnalyzeProject
    \/ DoLegacyAnalyzeCode
    \/ DoAnalyzeCalls
    \/ DoAnalyzeClassDependencies
    \/ DoGetDependencyStatistics
    \/ DoAnalyzeMethodCalls
    \/ DoParseCode
    \/ DoGetClassRelationships
    \/ DoDemographicAnalyzeFile
    \/ DoDemographicGetPatternSummary
    \/ DoDemographicGetStatistics
    \/ DoIntegrationAnalyzeFile
    \/ DoIntegrationGetPatternSummary
    \/ DoIntegrationGetStatistics

SpecCallGraph == InitCallGraph /\ [][NextCallGraph]_vars
SpecSequence == InitSequence /\ [][NextSequence]_vars
SpecParser == InitParser /\ [][NextParser]_vars
SpecScanner == InitScanner /\ [][NextScanner]_vars
SpecLegacy == InitLegacy /\ [][NextLegacy]_vars
SpecProject == InitProject /\ [][NextProject]_vars
SpecMicroservice == InitMicroservice /\ [][NextMicroservice]_vars
Spec == Init /\ [][Next]_vars

----------------------------------------------------------------------------
(* The classification of one string literal: the body of the loop of       *)
(* _analyze_sql_queries, applied to a string node of method load of class  *)
(* Svc in A.java.  source is the text of the literal.                      *)

InitStringNode ==
    /\ Construct
    /\ analyzer = "LegacyTableAnalyzer"
    /\ source \in SqlLiterals

DoStringNode ==
    /\ analyzer = "LegacyTableAnalyzer"
    /\ Len(table_usages) < MaxRecords
    /\ \E value \in {source, ProbeLiteral} :
         /\ table_usages' = StringNode(table_usages, value, "A.java", "Svc", "load")
         /\ last' = [op |-> "_check_sql_for_tables", code |-> value, name |-> "load",
                     exc |-> None, parsed |-> FALSE, out |-> <<>>]
    /\ UNCHANGED <<callGraphVars, sequenceVars, parserVars, scannerVars, microserviceVars,
                   analyzer, source>>

NextStringNode == DoStringNode
SpecStringNode == InitStringNode /\ [][NextStringNode]_vars

----------------------------------------------------------------------------
(* What the claims speak of *)

Returned(op) == last.op = op /\ last.exc = None

\* Class.method for every method the text declares
DeclaredMethods(c) ==
    UNION {{cl.name \o "." \o cl.methods[j].name : j \in DOMAIN cl.methods} :
           cl \in Range(c.classes)}

\* the callee identifier of a call in a method of class cl: qualifier.member
\* when the call has a qualifier, Class.member when it has none
CalleeId(cl, call) ==
    (IF Truthy(call.qualifier) THEN call.qualifier ELSE cl.name) \o "." \o call.member

\* caller -> callee for every call in the body of every declared method
DeclaredCalls(c) ==
    UNION {UNION {{<<cl.name \o "." \o cl.methods[j].name,
                     CalleeId(cl, cl.methods[j].body.calls[k])>> :
                      k \in DOMAIN cl.methods[j].body.calls} :
                  j \in DOMAIN cl.methods} :
           cl \in Range(c.classes)}

DiscoveredIds(c) == DeclaredMethods(c) \cup {e[2] : e \in DeclaredCalls(c)}

\* C1: after analyze_calls returns, the graph's edges and get_method_list()
\* hold only identifiers discovered in the text of that call, nothing from
\* an earlier call.
C1_OnlyLatestCall ==
    Returned("analyze_calls") =>
        /\ GetMethodList(CallGraphSelf) \subseteq DiscoveredIds(last.code)
        /\ \A e \in Edges(graph) :
              e[1] \in DiscoveredIds(last.code) /\ e[2] \in DiscoveredIds(last.code)

\* C2: after analyze_class_dependencies returns, every class B of the text
\* with `extends A` has the edge (B, A) of kind Inheritance, and A and B are
\* nodes, whatever else B declares.
C2_InheritanceEdge ==
    Returned("analyze_class_dependencies") =>
        \A cl \in Range(last.code.classes) :
            cl.extends # None =>
                /\ <<cl.name, cl.extends>> \in Edges(graph)
                /\ graph.adj[<<cl.name, cl.extends>>].type = "Inheritance"
                /\ {cl.name, cl.extends} \subseteq graph.node

C4_CallEdges ==
    Returned("analyze_calls") => DeclaredCalls(last.code) \subseteq Edges(graph)

\* C5: after analyze_calls returns, the method-name set holds both ends of
\* every edge of the graph, and Class.method for every declared method.
C5_MethodSetCoversGraph ==
    Returned("analyze_calls") =>
        /\ \A e \in Edges(graph) : e[1] \in methods /\ e[2] \in methods
        /\ DeclaredMethods(last.code) \subseteq methods

\* analyze_method_calls found the target method
Found == last.op = "analyze_method_calls" /\ last.exc \in {None, ImageError}

Declares(cl, method_name) == \E j \in DOMAIN cl.methods : cl.methods[j].name = method_name

\* the first class, in text order, that declares method_name
FirstClass(t, method_name) ==
    CHOOSE i \in DOMAIN t :
        Declares(t[i], method_name) /\ \A h \in 1..(i - 1) : ~Declares(t[h], method_name)

\* its first method of that name, in declaration order
FirstDeclaration(t, method_name) ==
    LET cl == t[FirstClass(t, method_name)]
    IN  cl.methods[CHOOSE j \in DOMAIN cl.methods :
                       /\ cl.methods[j].name = method_name
                       /\ \A h \in 1..(j - 1) : cl.methods[h].name # method_name]

Scanned == /\ last.op = "analyze_method_calls"
           /\ ~last.code.empty /\ last.name # ""
           /\ last.code.declares /\ last.code.parses

EntryPoints == {"parse_code", "analyze_calls", "analyze_class_dependencies",
                "analyze_method_calls"}

\* C10: every entry point rejects the empty text, and analyze_method_calls an
\* empty method name, by an error raised before any parse is attempted.
C10_EmptyInputRejected ==
    /\ (last.op \in EntryPoints /\ last.code.empty) => (last.exc # None /\ ~last.parsed)
    /\ (last.op = "analyze_method_calls" /\ last.name = "") =>
          (last.exc # None /\ ~last.parsed)

----------------------------------------------------------------------------
(* The lexical scanners *)

\* the category a match record carries
CategoryOf(m) ==
    IF analyzer = "DemographicPatternAnalyzer" THEN m.category ELSE m.pattern_type

\* the categories the analyzer is configured with
ConfiguredCategories ==
    IF analyzer = "DemographicPatternAnalyzer"
    THEN {"id", "name", "address", "contact", "identity", "demographics"}
    ELSE {"rest_api", "soap_services", "database", "messaging", "file"}

\* the matches of category c, in the order of the match list
OfCategory(c) == SelectSeq(matches, LAMBDA m : CategoryOf(m) = c)

RECURSIVE SumOver(_, _)
SumOver(f, S) ==
    IF S = {} THEN 0 ELSE LET k == CHOOSE x \in S : TRUE IN f[k] + SumOver(f, S \ {k})

\* C11: the match list of a scanner is append-only: whatever a call does, the
\* list before it is a prefix of the list after it.
C11_AppendOnly == [][IsPrefix(matches, matches')]_vars

\* a later file was analysed and the matches of the earlier file are still there
C11_Witness ==
    /\ last.op = "analyze_file"
    /\ Len(matches) >= 2
    /\ matches[1].file_path # last.name
    /\ matches[Len(matches)].file_path = last.name

\* C12: get_statistics returns one count for each configured category and for
\* nothing else, the count is the number of accumulated matches of that
\* category (0 when there is none), and the counts add up to the length of the
\* match list.
C12_Statistics ==
    last.op = "get_statistics" =>
        /\ DOMAIN last.out = ConfiguredCategories
        /\ \A c \in ConfiguredCategories :
              last.out[c] = Cardinality({i \in DOMAIN matches : CategoryOf(matches[i]) = c})
        /\ SumOver(last.out, DOMAIN last.out) = Len(matches)

\* statistics with a category that was hit and one that was not
C12_Witness ==
    /\ last.op = "get_statistics"
    /\ \E c \in DOMAIN last.out : last.out[c] >= 2
    /\ \E c \in DOMAIN last.out : last.out[c] = 0

\* C13: get_pattern_summary has a key for exactly the categories that have a
\* match, and under each key the matches of that category in the order of the
\* match list, so every match appears exactly once.
C13_Summary ==
    last.op = "get_pattern_summary" =>
        /\ DOMAIN last.out = {CategoryOf(matches[i]) : i \in DOMAIN matches}
        /\ \A c \in DOMAIN last.out : last.out[c] = OfCategory(c)
        /\ SumOver([c \in DOMAIN last.out |-> Len(last.out[c])], DOMAIN last.out)
              = Len(matches)

\* a summary of two categories, one of them with two different matches
C13_Witness ==
    /\ last.op = "get_pattern_summary"
    /\ Cardinality(DOMAIN last.out) >= 2
    /\ \E c \in DOMAIN last.out : Len(last.out[c]) >= 2 /\ last.out[c][1] # last.out[c][2]

\* the number of lines of a text: one more than its line breaks
LineCount(content) == Cardinality({i \in DOMAIN content : content[i] = "\n"}) + 1

\* C14: every record that analyze_file(file_path, content) appends has the
\* given file path, a line number between 1 and the number of lines of the
\* content, and a matched text that is literally part of that line.
C14_MatchRecords ==
    [][last'.op = "analyze_file" =>
          \A i \in (Len(matches) + 1)..Len(matches') :
              LET m == matches'[i] IN
              /\ m.file_path = last'.name
              /\ m.line_number \in 1..LineCount(last'.code)
              /\ IsInfix(m.matched_text, Split(last'.code)[m.line_number])]_vars

\* a match of several atoms, one of them in upper case, on the second line
C14_Witness ==
    /\ last.op = "analyze_file"
    /\ \E i \in DOMAIN matches :
          /\ matches[i].file_path = last.name
          /\ matches[i].line_number = 2
          /\ Len(matches[i].matched_text) >= 3
          /\ \E k \in DOMAIN matches[i].matched_text :
                Lower(matches[i].matched_text[k]) # matches[i].matched_text[k]

----------------------------------------------------------------------------
(* The legacy table analyzer *)

\* LegacyTableAnalyzer.analyze_code was given a text that parses
LegacyAnalyzed(l) ==
    analyzer = "LegacyTableAnalyzer" /\ l.op = "analyze_code" /\ l.code.parses

\* the system that is configured with the table
OwnerOf(table) ==
    LegacySystems[CHOOSE i \in DOMAIN LegacySystems :
                      table \in Range(LegacySystems[i].tables)].system

\* the string literal names the table, in upper or lower case
Names(string, table) == \E n \in DOMAIN string : Upper(string[n]) = table

\* C15: after analyze_code, for every string literal in a method M of a class C
\* that contains the name of a configured table T there is a usage record with
\* table_name T, the system that owns T, class_name C and method_name M.
C15_SqlUsage ==
    LegacyAnalyzed(last) =>
        \A i \in DOMAIN last.code.classes :
            \A j \in DOMAIN last.code.classes[i].methods :
                LET C == last.code.classes[i]
                    M == C.methods[j]
                IN  \A k \in DOMAIN M.strings : \A T \in Range(LegacyTables) :
                        Names(M.strings[k], T) =>
                            \E n \in DOMAIN table_usages :
                                /\ table_usages[n].table_name = <<T>>
                                /\ table_usages[n].system = OwnerOf(T)
                                /\ table_usages[n].file_path = last.name
                                /\ table_usages[n].class_name = C.name
                                /\ table_usages[n].method_name = M.name

\* the class carries @Entity and a @Table with a name attribute
IsNamedEntity(node) ==
    /\ HasAnnotation(node.annotations, "Entity")
    /\ \E a \in DOMAIN node.annotations :
          /\ node.annotations[a].name = "Table"
          /\ node.annotations[a].form = "pairs"
          /\ node.annotations[a].key = "name"

\* C16: analyze_code appends exactly one record of kind "Entity Class" for
\* every class of the text that carries @Entity and a @Table with a name
\* attribute, whatever the table name and whatever the SQL literals.
C16_EntityRecord ==
    [][LegacyAnalyzed(last') =>
          \A i \in DOMAIN last'.code.classes :
              IsNamedEntity(last'.code.classes[i]) =>
                  Cardinality({n \in (Len(table_usages) + 1)..Len(table_usages') :
                                  /\ table_usages'[n].class_name = last'.code.classes[i].name
                                  /\ table_usages'[n].method_name = "Entity Class"
                                  /\ table_usages'[n].file_path = last'.name}) = 1]_vars

----------------------------------------------------------------------------
(* The project analyzer *)

\* the files of the tree, directory by directory: [dir, file]
FilesOf(walk) ==
    Concat([i \in DOMAIN walk |->
              [k \in DOMAIN walk[i].files |-> [dir |-> walk[i].dir, file |-> walk[i].files[k]]]])

\* the path of a file relative to the project directory
Relative(f) == IF f.dir = <<>> THEN f.file.name ELSE f.dir \o <<"/">> \o f.file.name

\* the path holds a test marker, in whatever case
HasTestMarker(path) == \E i \in DOMAIN path : Lower(path[i]) = "test"

\* a .java file that can be read and parsed
IsSource(f) == f.file.name[Len(f.file.name)] = ".java"
Analysable(f) == IsSource(f) /\ f.file.readable /\ f.file.code.parses

\* C17: analyze_project returns exactly one ProjectFile for every readable,
\* parseable .java file whose path relative to the project root holds no test
\* marker, and none for any other file, wherever the project root is.
C17_OnePerSourceFile ==
    last.op = "analyze_project" =>
        LET expected == {Relative(f) : f \in {g \in Range(FilesOf(last.code)) :
                                                Analysable(g) /\ ~HasTestMarker(Relative(g))}}
        IN  /\ {last.out[i].path : i \in DOMAIN last.out} = expected
            /\ Len(last.out) = Cardinality(expected)

\* the tree without the files that cannot be read or parsed
WithoutFailing(walk) ==
    [i \in DOMAIN walk |->
        Directory(walk[i].dir,
                  SelectSeq(walk[i].files, LAMBDA file : file.readable /\ file.code.parses))]

\* C18: a file that cannot be read or parsed is skipped and nothing else
\* changes: analyze_project returns what it returns for the tree without the
\* failing files, and every ProjectFile has the classes of its own text.
C18_FailureSkipsOneFile ==
    last.op = "analyze_project" =>
        /\ last.out = AnalyzeProject([tree |-> [ok |-> FALSE, tree |-> <<>>], classes |-> <<>>],
                                    last.name, WithoutFailing(last.code)).java_files
        /\ \A i \in DOMAIN last.out :
              \E f \in Range(FilesOf(last.code)) :
                  /\ Relative(f) = last.out[i].path
                  /\ [k \in DOMAIN last.out[i].classes |-> last.out[i].classes[k].name]
                        = [k \in DOMAIN f.file.code.classes |-> f.file.code.classes[k].name]

\* a file that fails, and after it a file that is returned
C18_Witness ==
    /\ last.op = "analyze_project"
    /\ Len(last.out) = 1
    /\ \E i, j \in DOMAIN FilesOf(last.code) :
          /\ i < j
          /\ IsSource(FilesOf(last.code)[i])
          /\ ~IsTestFile(FilesOf(last.code)[i].file.name)
          /\ ~Analysable(FilesOf(last.code)[i])
          /\ Relative(FilesOf(last.code)[j]) = last.out[1].path

----------------------------------------------------------------------------
(* The declaration extractor *)

\* parse_code returned for a text that declares one class
ParsedSingleClass ==
    /\ analyzer = "JavaCodeParser"
    /\ Returned("parse_code")
    /\ Len(last.code.classes) = 1

----------------------------------------------------------------------------
(* The microservice analyzer *)

\* C20: when MicroserviceAnalyzer.analyze_code raises, whether in parsing or in
\* one of the sub-analyses, api_endpoints, soap_operations,
\* service_dependencies and service_names are what they were before the call.
C20_NoPartialRecovery ==
    [][(analyzer = "MicroserviceAnalyzer" /\ last'.op = "analyze_code" /\ last'.exc # None)
          => UNCHANGED microserviceVars]_vars

----------------------------------------------------------------------------
(* The rendering call of the sequence diagram generator *)

\* the diagram text _generate_sequence_diagram gives for the analyzer's fields
DiagramOfFields == GenerateSequenceDiagram([interactions |-> interactions,
                                            current_class |-> sd_class])

----------------------------------------------------------------------------
(* The call graph as a simple graph *)

\* caller -> callee for every call of the text, the callee named as line 44
\* names it; a pair invoked several times is one element
InvokedPairs(c) ==
    UNION {UNION {{<<cl.name \o "." \o cl.methods[j].name,
                     Str(cl.methods[j].body.calls[k].qualifier) \o "."
                         \o cl.methods[j].body.calls[k].member>> :
                      k \in DOMAIN cl.methods[j].body.calls} :
                  j \in DOMAIN cl.methods} :
           cl \in Range(c.classes)}

\* the edges that leave a method identifier
CallEdges == {e \in Edges(graph) : e[1] \in methods}

\* C22: after analyze_calls returns for a text, the graph holds exactly one
\* edge for every (caller, callee) pair of it, however often the pair is
\* invoked in a body or analysed again; the texts analysed besides it have no
\* calls, so the number of call edges is the number of its distinct pairs.
C22_OneEdgePerPair ==
    (Returned("analyze_calls") /\ last.code = source) =>
        /\ \A p \in InvokedPairs(source) : Cardinality({e \in CallEdges : e = p}) = 1
        /\ Cardinality(CallEdges) = Cardinality(InvokedPairs(source))

----------------------------------------------------------------------------
(* The lines of the sequence description *)

\* the position of a name in the order of the code points
CodePointRank(p) == CHOOSE i \in DOMAIN Alphabet : Alphabet[i] = p

\* the lines of the returned text between the preamble and the arrows, and the
\* arrow lines that follow them
ParticipantLines ==
    LET closing == IF interactions = <<>> THEN 2 ELSE 1
    IN  SubSeq(last.out, Len(DiagramHeader) + 1,
               Len(last.out) - Len(interactions) - closing)
ArrowLines ==
    LET closing == IF interactions = <<>> THEN 2 ELSE 1
    IN  SubSeq(last.out, Len(last.out) - Len(interactions) - closing + 1,
               Len(last.out) - closing)

----------------------------------------------------------------------------
(* The usage type of a string literal *)

\* the literal holds the word, in either case
HasWord(value, lower, upper) == \E i \in DOMAIN value : value[i] \in {lower, upper}

\* the three-way rule: JOIN before SELECT before Other
UsageTypeRule(value) ==
    IF HasWord(value, "join", "JOIN") THEN "JOIN"
    ELSE IF HasWord(value, "select", "SELECT") THEN "SELECT"
    ELSE "Other"

\* the configured tables the words of the literal name, in either case
TablesNamed(value) ==
    {t \in {"CRPS_CUSTOMER", "CRIF_MEMBER"} :
        \/ t = "CRPS_CUSTOMER" /\ HasWord(value, "crps_customer", "CRPS_CUSTOMER")
        \/ t = "CRIF_MEMBER" /\ HasWord(value, "crif_member", "CRIF_MEMBER")}

----------------------------------------------------------------------------
(* Field, parameter and return relationships *)

\* the primitives, their boxed forms, and String
ExclusionList ==
    {"int", "long", "float", "double", "boolean", "char", "byte", "short",
     "Integer", "Long", "Float", "Double", "Boolean", "Character", "Byte", "Short", "String"}

\* the kind the rule gives the relationship of a field
FieldKind(field) == IF "final" \in field.modifiers THEN "Composition" ELSE "Association"

\* the fields of the class that have one type are all final or all not final,
\* so that the rule asks one kind of each edge
FieldsAgree(cl) ==
    \A k, h \in DOMAIN cl.fields :
        cl.fields[k].type = cl.fields[h].type => FieldKind(cl.fields[k]) = FieldKind(cl.fields[h])

\* C25: after analyze_class_dependencies returns, every field of a class C of
\* the text whose type T is not in the exclusion list has the edge (C, T), of
\* kind Composition if the field is final and Association otherwise, whatever
\* supertypes, method parameters and return types C declares besides.
C25_FieldEdgeKind ==
    Returned("analyze_class_dependencies") =>
        \A cl \in Range(last.code.classes) :
            \A k \in DOMAIN cl.fields :
                (FieldsAgree(cl) /\ cl.fields[k].type \notin ExclusionList) =>
                    /\ <<cl.name, cl.fields[k].type>> \in Edges(graph)
                    /\ graph.adj[<<cl.name, cl.fields[k].type>>].type = FieldKind(cl.fields[k])

\* the parameter types and the return type of the methods of a class
MethodTypes(cl) ==
    UNION {Range(cl.methods[j].parameters) \cup
               (IF cl.methods[j].return_type = None THEN {} ELSE {cl.methods[j].return_type}) :
           j \in DOMAIN cl.methods}

\* C26: after analyze_class_dependencies returns, a parameter or return type
\* T of a method of class C has the edge (C, T) of kind Association exactly
\* if T is not in the exclusion list, and no edge derived from a field, a
\* parameter or a return type targets a type of the exclusion list.
C26_AssociationIffNotExcluded ==
    Returned("analyze_class_dependencies") =>
        /\ \A cl \in Range(last.code.classes) :
              \A T \in MethodTypes(cl) :
                  T \notin ExclusionList <=>
                      /\ <<cl.name, T>> \in Edges(graph)
                      /\ graph.adj[<<cl.name, T>>].type = "Association"
        /\ \A e \in Edges(graph) :
              e[2] \in ExclusionList => graph.adj[e].type \in {"Inheritance", "Implementation"}

\* C26's case: class B extends A { Boolean m(Engine e, A a); } and another
\* method with a primitive parameter
C26_Witness ==
    /\ Returned("analyze_class_dependencies")
    /\ \E cl \in Range(last.code.classes) :
          /\ cl.extends = "A"
          /\ {"Engine", "A", "Boolean", "long"} \subseteq MethodTypes(cl)
          /\ <<cl.name, "Engine">> \in Edges(graph)
          /\ <<cl.name, "A">> \in Edges(graph)
          /\ <<cl.name, "Boolean">> \notin Edges(graph)

----------------------------------------------------------------------------
(* The inheritance depth *)

\* the superclass the text declares for the class of that name; None if the
\* text does not declare the class, or declares it without extends
SuperclassOf(c, name) ==
    LET at == {i \in DOMAIN c.classes : c.classes[i].name = name}
    IN  IF at = {} THEN None ELSE c.classes[CHOOSE i \in at : TRUE].extends

RECURSIVE WalkUp(_, _, _)
\* the number of extends declarations met walking up from the class, at most
\* `most` of them
WalkUp(c, name, most) ==
    IF most = 0 \/ SuperclassOf(c, name) = None THEN 0
    ELSE 1 + WalkUp(c, SuperclassOf(c, name), most - 1)

\* no class of the text is its own ancestor, and no name is declared twice
WellFormedHierarchy(c) ==
    /\ \A i, j \in DOMAIN c.classes : c.classes[i].name = c.classes[j].name => i = j
    /\ \A i \in DOMAIN c.classes :
          WalkUp(c, c.classes[i].name, Len(c.classes) + 1) <= Len(c.classes)

\* the longest chain of extends declarations of the text
LongestExtendsChain(c) ==
    LET depths == {WalkUp(c, c.classes[i].name, Len(c.classes)) : i \in DOMAIN c.classes}
    IN  IF depths = {} THEN 0 ELSE CHOOSE n \in depths : \A k \in depths : k <= n

\* C27: get_dependency_statistics, given the graph analyze_class_dependencies
\* returned for a text, reports as max_inheritance_depth the number of extends
\* declarations of the longest chain of the text, as a walk up the superclass
\* references of every class finds it; 0 when no class extends another.
C27_MaxInheritanceDepth ==
    (last.op = "get_dependency_statistics" /\ WellFormedHierarchy(last.code)) =>
        last.out.max_inheritance_depth = LongestExtendsChain(last.code)

----------------------------------------------------------------------------
(* The two graphs of one CallGraphAnalyzer *)

RelationshipKinds == {"Inheritance", "Implementation", "Composition", "Association"}

\* the graph holds method identifiers and edges without a relationship kind
OnlyCallEdges ==
    /\ \A n \in graph.node : n \in methods
    /\ \A e \in Edges(graph) : graph.adj[e] = NoAttr

\* the graph holds no method identifier, and every edge has a relationship kind
OnlyRelationshipEdges ==
    /\ \A n \in graph.node : n \notin methods
    /\ \A e \in Edges(graph) : graph.adj[e].type \in RelationshipKinds

\* C28: however analyze_calls and analyze_class_dependencies are interleaved
\* on one instance, the graph analyze_calls returns holds only method nodes
\* and call edges, and the graph analyze_class_dependencies returns holds
\* only class nodes and relationship edges.
C28_ResultsDoNotMix ==
    /\ Returned("analyze_calls") => OnlyCallEdges
    /\ Returned("analyze_class_dependencies") => OnlyRelationshipEdges

----------------------------------------------------------------------------
(* One edge per pair of classes *)

Relationship(target, type, details) == [target |-> target, type |-> type, details |-> details]

\* the relationships of one method: its parameters, then its return type
RelationshipsOfMethod(cl, m) ==
    [i \in DOMAIN m.parameters |->
        Relationship(m.parameters[i], "Association", cl.name \o " uses " \o m.parameters[i])]
      \o (IF m.return_type = None THEN <<>>
          ELSE <<Relationship(m.return_type, "Association",
                              cl.name \o " returns " \o m.return_type)>>)

\* the relationships a class declares, in the order they are processed:
\* Inheritance, Implementation, fields in field order, methods in method order
RelationshipsOf(cl) ==
    LET all ==
          (IF cl.extends = None THEN <<>>
           ELSE <<Relationship(cl.extends, "Inheritance",
                               cl.name \o " extends " \o cl.extends)>>)
            \o [i \in DOMAIN cl.implements |->
                   Relationship(cl.implements[i], "Implementation",
                                cl.name \o " implements " \o cl.implements[i])]
            \o [i \in DOMAIN cl.fields |->
                   IF "final" \in cl.fields[i].modifiers
                   THEN Relationship(cl.fields[i].type, "Composition",
                                     cl.name \o " composition with " \o cl.fields[i].type)
                   ELSE Relationship(cl.fields[i].type, "Association",
                                     cl.name \o " association with " \o cl.fields[i].type)]
            \o Concat([j \in DOMAIN cl.methods |-> RelationshipsOfMethod(cl, cl.methods[j])])
    IN  SelectSeq(all, LAMBDA r : r.type \in {"Inheritance", "Implementation"}
                                     \/ r.target \notin ExclusionList)

\* the last relationship of the class to the target
LastRelationship(cl, target) ==
    LET rs == RelationshipsOf(cl)
        at == {i \in DOMAIN rs : rs[i].target = target}
    IN  rs[CHOOSE i \in at : \A k \in at : k <= i]

DistinctNames(c) ==
    \A i, j \in DOMAIN c.classes : c.classes[i].name = c.classes[j].name => i = j

\* the pairs (source, target) between which the text declares a relationship
RelatedPairs(c) ==
    UNION {{<<cl.name, RelationshipsOf(cl)[i].target>> : i \in DOMAIN RelationshipsOf(cl)} :
           cl \in Range(c.classes)}

\* C29: the relationship graph of a text holds one edge for every pair of
\* classes between which the text declares a relationship, total_dependencies
\* is the number of these pairs, and the kind and the details of an edge are
\* those of the relationship of the pair that is processed last: Inheritance,
\* then Implementation, then the fields in order, then the methods in order.
C29_LastRelationshipWins ==
    (last.op = "get_dependency_statistics" /\ DistinctNames(last.code)) =>
        /\ Edges(graph) = RelatedPairs(last.code)
        /\ last.out.total_dependencies = Cardinality(RelatedPairs(last.code))
        /\ \A cl \in Range(last.code.classes) :
              \A i \in DOMAIN RelationshipsOf(cl) :
                  LET target == RelationshipsOf(cl)[i].target
                  IN  graph.adj[<<cl.name, target>>] =
                          Attr(LastRelationship(cl, target).type,
                               LastRelationship(cl, target).details)

\* C29's case: a class with relationships of three kinds or more to one
\* target, counted as one dependency
C29_Witness ==
    /\ last.op = "get_dependency_statistics"
    /\ \E cl \in Range(last.code.classes) :
          \E target \in {"A"} :
              /\ Cardinality({RelationshipsOf(cl)[i].type :
                                 i \in {k \in DOMAIN RelationshipsOf(cl) :
                                           RelationshipsOf(cl)[k].target = target}}) >= 3
              /\ last.out.total_dependencies < Len(RelationshipsOf(cl))
              /\ graph.adj[<<cl.name, target>>].type = "Association"

----------------------------------------------------------------------------
(* The class list across calls of parse_code *)

\* what the text declares of each class: its superclass, then its interfaces
DeclaredRelationships(c) ==
    [n \in {c.classes[i].name : i \in DOMAIN c.classes} |->
        LET cl == c.classes[CHOOSE i \in DOMAIN c.classes : c.classes[i].name = n]
        IN  (IF cl.extends = None THEN <<>> ELSE <<cl.extends>>) \o cl.implements]

ParserSelf == [tree |-> tree, classes |-> classes]

\* C30: a parse_code call that returns leaves in the class list exactly the
\* classes of its text, in order, and nothing of earlier calls; a call that
\* raises because the text does not parse leaves the list as it was, so that
\* get_class_relationships reports what it reported before the call.
C30_ClassesReplacedOnSuccessOnly ==
    [][last'.op = "parse_code" =>
          IF last'.exc = None
          THEN /\ Len(classes') = Len(last'.code.classes)
               /\ \A i \in DOMAIN classes' : classes'[i].name = last'.code.classes[i].name
               /\ GetClassRelationships(ParserSelf') = DeclaredRelationships(last'.code)
          ELSE /\ ~last'.code.parses
               /\ classes' = classes
               /\ GetClassRelationships(ParserSelf') = GetClassRelationships(ParserSelf)]_vars

\* C30's case: a text that does not parse was given after a text with a
\* subclass was parsed, and the class list still holds the subclass
C30_Witness ==
    /\ last.op = "parse_code"
    /\ last.exc # None
    /\ \E i \in DOMAIN classes : classes[i].extends # None

====
